---- MODULE Spec2Model ----
(***************************************************************************)
(* A model of Wisteria::GraphItems::Axis (src/src/base/axis.cpp): range    *)
(* and tick generation, the AxisPoint collection, reversal, the two        *)
(* coordinate mappings and the resets.                                     *)
(*                                                                         *)
(* Numbers.  A C++ double holding an axis value is modelled as an integer  *)
(* count of tenths (Unit tenths make 1.0), so 0.2 is 2 and 47 is 470;      *)
(* arithmetic on these is exact (binary rounding of doubles is not         *)
(* modelled).  A double that need not be a multiple of a tenth (the label  *)
(* offset, an interpolated value) is a fraction [n, d].  Pixels (wxCoord)  *)
(* are integers; a double stored into one is truncated towards zero.       *)
(***************************************************************************)
EXTENDS Integers, Naturals, Sequences, FiniteSets, TLC

\* tenths per 1.0
Unit == 2 * 5

\* the largest size_t; it stands for 2^64 - 1, which is beyond TLC's 32-bit
\* integers, and is only ever the value an unsigned 0 - 1 wraps to
SizeTMax == 2147483647

---------------------------------------------------------------------------
(* Bounds of the checked instance *)

\* the farthest pixel an axis endpoint is placed at
MaxPixel == 12

\* the largest display interval (label stride) handed to SetRange
MaxDisplayInterval == 2

\* the most brackets an axis is given
MaxBrackets == 2

\* how far from the origin the endpoints of an axis may lie for SetBoundingBox
\* to be called on it (repeated calls can move them ever further)
MaxCoordinate == 40

\* the most blocks a bar is given, and the most rows and columns a table
\* grows to
MaxBlocks == 3

MaxRows == 3

MaxColumns == 3

---------------------------------------------------------------------------
(* Arithmetic helpers *)

Min(x, y) == IF x < y THEN x ELSE y

Max(x, y) == IF x > y THEN x ELSE y

Abs(x) == IF x < 0 THEN -x ELSE x

\* conversion of the double n/d (d > 0) to an integer type: towards zero
TruncDiv(n, d) == IF n >= 0 THEN n \div d ELSE -((-n) \div d)

\* std::ceil of the double n/d (d > 0)
CeilDiv(n, d) == -((-n) \div d)

\* safe_divide<double>: 0 when the divisor is 0, as a fraction otherwise
safe_divide(n, d) ==
    IF d = 0 THEN [n |-> 0, d |-> 1]
    ELSE IF d < 0 THEN [n |-> -n, d |-> -d] ELSE [n |-> n, d |-> d]

\* safe_divide<wxCoord>, safe_divide<long>: 0 when the divisor is 0, the
\* integer quotient otherwise
safe_divide_integer(n, d) == IF d = 0 THEN 0 ELSE TruncDiv(n, d)

\* safe_modulus<size_t>: 0 when the divisor is 0
safe_modulus(x, y) == IF y = 0 THEN 0 ELSE x % y

\* A wxString is [kind, text, number, precision]: a literal text, or the text
\* that formatting a number or a date produced (kept as what was formatted).

\* a wxString given as a literal
TextLabel(s) == [kind |-> "text", text |-> s, number |-> 0, precision |-> 0]

\* wxNumberFormatter::ToString(value, precision, Style_WithThousandsSep):
\* the text of a value rounded to `precision` decimals (ties to even, as
\* printf does for an exactly representable half); number is the rounded
\* value in units of 10^-precision
FormatNumber(value, precision) ==
    IF precision >= 1
    THEN [kind |-> "number", text |-> "", number |-> value * 10^(precision - 1),
          precision |-> precision]
    ELSE LET q == value \div Unit
             r == value % Unit
             rounded == IF 2 * r > Unit THEN q + 1
                        ELSE IF 2 * r < Unit THEN q
                        ELSE IF q % 2 = 0 THEN q ELSE q + 1
         IN [kind |-> "number", text |-> "", number |-> rounded, precision |-> 0]

\* wxDateTime::FormatDate() of the day numbered `day`
FormatDate(day) == [kind |-> "date", text |-> "", number |-> day, precision |-> 0]

---------------------------------------------------------------------------
(* The axis object *)

AxisTypes == {"BottomXAxis", "TopXAxis", "LeftYAxis", "RightYAxis"}

IsVertical(a) == a.m_type \in {"LeftYAxis", "RightYAxis"}

IsHorizontal(a) == a.m_type \in {"BottomXAxis", "TopXAxis"}

IsReversed(a) == a.m_scaledReserved

\* the physical coordinate of a point that was never positioned
UnsetCoordinate == -1

\* AxisPoint(value, displayValue, show)
AxisPoint(value, displayValue, show) ==
    [value |-> value, displayValue |-> displayValue, shown |-> show,
     physicalCoordinate |-> UnsetCoordinate]

\* the values of the axis points, in the order they are stored
PointValues(a) == [i \in 1..Len(a.m_axisLabels) |-> a.m_axisLabels[i].value]

\* a default-constructed wxDateTime; a valid one is [valid, day], the day
\* counted from 1 January of the calendar year the model covers
InvalidDate == [valid |-> FALSE, day |-> 0]

Date(day) == [valid |-> TRUE, day |-> day]

\* Label(GraphItemInfo().Ok(false)): what the cache of the widest and of the
\* tallest label holds while it is invalid.  A cached label is [ok, text,
\* textOrientation, scaling], its text the sequence of its pieces
NotOkLabel ==
    [ok |-> FALSE, text |-> << >>, textOrientation |-> "Horizontal", scaling |-> Unit]

\* a title, header or footer without text: Label(GraphItemInfo(L""))
BlankLabel == [text |-> TextLabel(""), textOrientation |-> "Horizontal"]

\* wxDefaultSize: no width and no height specified
wxDefaultSize == [width |-> -1, height |-> -1]

\* the axis right after construction; scalings are in tenths
NewAxis(type) ==
    [m_type |-> type,
     m_axisLabels |-> << >>,
     m_customAxisLabels |-> {},
     m_tickMarks |-> << >>,
     m_rangeStart |-> 0,
     m_rangeEnd |-> Unit,
     m_displayPrecision |-> 0,
     m_interval |-> Unit,
     m_tickMarkInterval |-> Unit,
     m_displayInterval |-> 1,
     m_scaledReserved |-> FALSE,
     m_startAtZero |-> FALSE,
     m_labelDisplay |-> "DisplayCustomLabelsOrValues",
     m_firstDay |-> InvalidDate,
     m_lastDay |-> InvalidDate,
     m_dateDisplayInterval |-> "Daily",
     m_points |-> << <<0, 0>>, <<0, 0>> >>,
     m_labelSpacingPhysicalOffset |-> [n |-> 0, d |-> 1],
     m_scaling |-> Unit,
     m_axisLabelScaling |-> Unit,
     m_labelOrientation |-> "Parallel",
     m_showOuterLabels |-> TRUE,
     m_stackLabelsToFit |-> FALSE,
     m_enableAutoStacking |-> (type \in {"BottomXAxis", "TopXAxis"}),
     m_maxLabelWidth |-> 0,
     m_widestLabel |-> NotOkLabel,
     m_tallestLabel |-> NotOkLabel,
     m_brackets |-> << >>,
     m_title |-> [BlankLabel EXCEPT !.textOrientation =
                     IF type \in {"LeftYAxis", "RightYAxis"} THEN "Vertical"
                     ELSE "Horizontal"],
     m_header |-> BlankLabel,
     m_footer |-> BlankLabel,
     m_axisLabelAlignment |-> "AlignWithAxisLine",
     m_outlineSize |-> wxDefaultSize,
     m_maxHeight |-> << >>,
     m_maxWidth |-> << >>,
     m_anchoring |-> "Center",
     m_freeFloating |-> FALSE]

\* IsStartingAtZero() clamp applied to a requested range start
ClampStart(a, rangeStart) ==
    IF a.m_startAtZero THEN Min(0, rangeStart) ELSE rangeStart

\* NextDisplayCountdown restarting the countdown one short
NextDisplayCountdownShort(current, displayInterval) ==
    IF current = 1 THEN displayInterval - 1
    ELSE IF current = 0 THEN SizeTMax ELSE current - 1

\* the next value of SetRange's currentDisplayInterval (a size_t)
NextDisplayCountdown(current, displayInterval) ==
    IF current = 1 THEN displayInterval
    ELSE IF current = 0 THEN SizeTMax ELSE current - 1

\* SetRange's two loops: the points pushed from i on.  The forward loop runs
\* while i < limit and adds the interval; the loop of a reversed axis runs
\* while i > limit and subtracts it.
RECURSIVE GenerateAxisPoints(_, _, _, _, _, _, _)
GenerateAxisPoints(reversed, i, limit, interval, current, displayInterval, precision) ==
    IF (~reversed /\ i < limit) \/ (reversed /\ i > limit)
    THEN << AxisPoint(i, FormatNumber(i, precision), current = 1) >> \o
         GenerateAxisPoints(reversed,
                            IF reversed THEN i - interval ELSE i + interval,
                            limit, interval,
                            NextDisplayCountdown(current, displayInterval),
                            displayInterval, precision)
    ELSE << >>

\* RangeIsRejected with the test left to the debug-only wxASSERT
RangeIsNeverRejected(a, rangeStart, rangeEnd) == FALSE

\* SetRange's test on the range it is given: the start is clamped first, and
\* a range that ends before it starts makes the call return at once
RangeIsRejected(a, rangeStart, rangeEnd) ==
    rangeEnd < ClampStart(a, rangeStart)

\* StoreRange taking "reset everything" to include the custom labels
StoreRangeClearingLabels(a, precision, interval, displayInterval, points, rangeStart, rangeEnd) ==
    [a EXCEPT !.m_displayPrecision = precision,
              !.m_interval = interval,
              !.m_tickMarkInterval = interval,
              !.m_displayInterval = displayInterval,
              !.m_axisLabels = points,
              !.m_customAxisLabels = {},
              !.m_rangeStart = rangeStart,
              !.m_rangeEnd = rangeEnd]

\* StoreRange keeping, for each point of the new collection, the pixel of
\* the point that was at its place in the old one
StoreRangeKeepingCoordinates(a, precision, interval, displayInterval, points, rangeStart, rangeEnd) ==
    [a EXCEPT !.m_displayPrecision = precision,
              !.m_interval = interval,
              !.m_tickMarkInterval = interval,
              !.m_displayInterval = displayInterval,
              !.m_axisLabels =
                 [i \in 1..Len(points) |->
                     IF i <= Len(a.m_axisLabels)
                     THEN [points[i] EXCEPT !.physicalCoordinate =
                                                a.m_axisLabels[i].physicalCoordinate]
                     ELSE points[i]],
              !.m_rangeStart = rangeStart,
              !.m_rangeEnd = rangeEnd]

\* the members SetRange assigns once it has accepted the range
StoreRange(a, precision, interval, displayInterval, points, rangeStart, rangeEnd) ==
    [a EXCEPT !.m_displayPrecision = precision,
              !.m_interval = interval,
              !.m_tickMarkInterval = interval,
              !.m_displayInterval = displayInterval,
              !.m_axisLabels = points,
              !.m_rangeStart = rangeStart,
              !.m_rangeEnd = rangeEnd]

\* void Axis::SetRange(double rangeStart, double rangeEnd, uint8_t precision,
\*                     double interval, size_t displayInterval)
SetRange(a, rangeStartArg, rangeEndArg, precision, intervalArg, displayInterval) ==
    LET cleared == [a EXCEPT !.m_widestLabel = NotOkLabel, !.m_tallestLabel = NotOkLabel]
        clamped == ClampStart(a, rangeStartArg)
    IN IF RangeIsRejected(a, rangeStartArg, rangeEndArg) THEN cleared
       ELSE
        LET same == (rangeEndArg = clamped)
            widen == IF same /\ intervalArg = 0 THEN Unit ELSE intervalArg
            rangeStart == IF same THEN clamped - widen ELSE clamped
            rangeEnd == IF same THEN rangeEndArg + widen ELSE rangeEndArg
            interval == IF widen <= 0
                        THEN TruncDiv(rangeEnd - rangeStart, 2)
                        ELSE widen
            points ==
                IF IsReversed(a)
                THEN GenerateAxisPoints(TRUE, rangeEnd, rangeStart - interval,
                                        interval, 1, displayInterval, precision)
                ELSE GenerateAxisPoints(FALSE, rangeStart, rangeEnd + interval,
                                        interval, 1, displayInterval, precision)
            lastValidPoint ==
                IF Len(points) > 0 THEN points[Len(points)].value
                ELSE IF IsReversed(a) THEN rangeEnd ELSE rangeStart
        IN StoreRange(cleared, precision, intervalArg, displayInterval, points,
                      IF IsReversed(a) THEN rangeEnd ELSE rangeStart,
                      lastValidPoint)

\* the division factor SetRange picks from the decade of the range size
RangeDivisionFactor(rangeSize) ==
    IF rangeSize > 100000000 * Unit THEN 100000000
    ELSE IF rangeSize > 10000000 * Unit THEN 10000000
    ELSE IF rangeSize > 1000000 * Unit THEN 1000000
    ELSE IF rangeSize > 100000 * Unit THEN 100000
    ELSE IF rangeSize > 10000 * Unit THEN 10000
    ELSE IF rangeSize > 1000 * Unit THEN 1000
    ELSE IF rangeSize > 100 * Unit THEN 100
    ELSE IF rangeSize > 10 * Unit THEN 10
    ELSE 1

\* the interval SetRange (auto interval) derives from the range size
AutoIntervalSize(rangeSize) ==
    IF rangeSize <= Unit THEN Unit \div 5
    ELSE IF rangeSize >= 100 * Unit
    THEN CeilDiv(rangeSize, Unit * RangeDivisionFactor(rangeSize)) *
         (RangeDivisionFactor(rangeSize) \div 10) * Unit
    ELSE IF rangeSize >= 20 * Unit THEN 5 * Unit
    ELSE CeilDiv(rangeSize, 10 * Unit) * Unit

\* AutoRangeSize dropping the remainder without adding the interval
AutoRangeSizeRoundedDown(rangeSize) ==
    IF rangeSize <= Unit THEN rangeSize
    ELSE rangeSize - safe_modulus(TruncDiv(rangeSize, Unit),
                                  AutoIntervalSize(rangeSize) \div Unit) * Unit

\* the range size after SetRange (auto interval) bumped it up to the interval
AutoRangeSize(rangeSize) ==
    IF rangeSize <= Unit THEN rangeSize
    ELSE LET intervalSize == AutoIntervalSize(rangeSize)
             remainder == safe_modulus(TruncDiv(rangeSize, Unit),
                                       intervalSize \div Unit)
         IN IF remainder # 0
            THEN (rangeSize - remainder * Unit) + intervalSize
            ELSE rangeSize

\* void Axis::SetRange(double rangeStart, double rangeEnd, uint8_t precision,
\*                     bool includeExtraInterval)
SetRangeAuto(a, rangeStartArg, rangeEndArg, precisionArg, includeExtraInterval) ==
    LET rangeStart == ClampStart(a, rangeStartArg)
        rangeSize == rangeEndArg - rangeStart
        intervalSize == AutoIntervalSize(rangeSize)
        precision == IF rangeSize <= Unit /\ precisionArg = 0 THEN 1 ELSE precisionArg
        grown == AutoRangeSize(rangeSize) +
                 (IF includeExtraInterval THEN intervalSize ELSE 0)
    IN SetRange(a, rangeStart, rangeStart + grown, precision, intervalSize, 1)

---------------------------------------------------------------------------
(* Coordinate mapping *)

\* index of the first axis point whose test holds (holds[k] is the outcome of
\* the scan's test on the k-th point), Len + 1 if there is none: the position
\* a forward scan with a break stops at
RECURSIVE FirstIndex(_, _)
FirstIndex(holds, i) ==
    IF i > Len(holds) THEN i
    ELSE IF holds[i] THEN i
    ELSE FirstIndex(holds, i + 1)

\* the position GetPhysicalCoordinate's search stops at: the loop of a
\* reversed axis, std::lower_bound otherwise
ValuePosition(a, value) ==
    LET AtOrBelow(p) == value >= p.value
        NotLess(p) == ~(p.value < value)
    IN IF IsReversed(a) THEN FirstIndex([k \in 1..Len(a.m_axisLabels) |-> AtOrBelow(a.m_axisLabels[k])], 1)
       ELSE FirstIndex([k \in 1..Len(a.m_axisLabels) |-> NotLess(a.m_axisLabels[k])], 1)

\* the pixel GetPhysicalCoordinate interpolates for a value between the
\* axis points at pos - 1 and pos
InterpolatedCoordinate(a, pos, value) ==
    LET points == a.m_axisLabels
        previousLine == points[pos - 1]
        percentage == safe_divide(value - previousLine.value,
                                  points[pos].value - previousLine.value)
        coordinateDifference ==
            IF IsHorizontal(a)
            THEN points[pos].physicalCoordinate - previousLine.physicalCoordinate
            ELSE previousLine.physicalCoordinate - points[pos].physicalCoordinate
    IN IF IsHorizontal(a)
       THEN TruncDiv(previousLine.physicalCoordinate * percentage.d +
                     coordinateDifference * percentage.n, percentage.d)
       ELSE TruncDiv(previousLine.physicalCoordinate * percentage.d -
                     coordinateDifference * percentage.n, percentage.d)

\* GetPhysicalCoordinate giving a value beyond either end of the axis the
\* pixel of the nearest axis point
GetPhysicalCoordinateClamping(a, value) ==
    LET points == a.m_axisLabels
        pos == ValuePosition(a, value)
    IN IF Len(points) = 0 THEN [ok |-> FALSE, result |-> -1]
       ELSE IF pos > Len(points)
       THEN [ok |-> TRUE, result |-> points[Len(points)].physicalCoordinate]
       ELSE IF points[pos].value = value \/ pos = 1
       THEN [ok |-> TRUE, result |-> points[pos].physicalCoordinate]
       ELSE [ok |-> TRUE, result |-> InterpolatedCoordinate(a, pos, value)]

\* bool Axis::GetPhysicalCoordinate(const double value, wxCoord& result) const
GetPhysicalCoordinate(a, value) ==
    LET points == a.m_axisLabels
        NotFound == [ok |-> FALSE, result |-> -1]
        pos == ValuePosition(a, value)
    IN IF Len(points) = 0 THEN NotFound
       ELSE IF pos > Len(points) THEN NotFound
       ELSE IF points[pos].value = value
       THEN [ok |-> TRUE, result |-> points[pos].physicalCoordinate]
       ELSE IF pos = 1 THEN NotFound
       ELSE [ok |-> TRUE, result |-> InterpolatedCoordinate(a, pos, value)]

\* bool Axis::GetValueFromPhysicalCoordinate(const wxCoord coordinate,
\*                                           double& value) const
\* (the value is the fraction n/d of a tenth)
GetValueFromPhysicalCoordinate(a, coordinate) ==
    LET points == a.m_axisLabels
        NotFound == [ok |-> FALSE, value |-> [n |-> -Unit, d |-> 1]]
        AtOrRight(p) == coordinate <= p.physicalCoordinate
        AtOrAbove(p) == coordinate >= p.physicalCoordinate
        pos == IF IsHorizontal(a) THEN FirstIndex([k \in 1..Len(points) |-> AtOrRight(points[k])], 1)
               ELSE FirstIndex([k \in 1..Len(points) |-> AtOrAbove(points[k])], 1)
    IN IF Len(points) = 0 THEN NotFound
       ELSE IF pos > Len(points) THEN NotFound
       ELSE IF coordinate = points[pos].physicalCoordinate
       THEN [ok |-> TRUE, value |-> [n |-> points[pos].value, d |-> 1]]
       ELSE IF pos = 1 THEN NotFound
       ELSE
        LET previousLine == points[pos - 1]
            percentage == safe_divide(coordinate - previousLine.physicalCoordinate,
                                      points[pos].physicalCoordinate -
                                        previousLine.physicalCoordinate)
            coordinateDifference ==
                IF IsHorizontal(a)
                THEN points[pos].value - previousLine.value
                ELSE previousLine.value - points[pos].value
        IN [ok |-> TRUE,
            value |->
              IF IsHorizontal(a)
              THEN [n |-> previousLine.value * percentage.d +
                          coordinateDifference * percentage.n,
                    d |-> percentage.d]
              ELSE [n |-> previousLine.value * percentage.d -
                          coordinateDifference * percentage.n,
                    d |-> percentage.d]]

---------------------------------------------------------------------------
(* Positioning: SetPoints and the calculations it runs *)

\* a wxPoint is <<x, y>>
PointX(pt) == pt[1]

PointY(pt) == pt[2]

\* the coordinate of an endpoint along the axis line
Along(a, pt) == IF IsVertical(a) THEN PointY(pt) ELSE PointX(pt)

\* SetPoints storing the endpoints in the order of its arguments
OrderEndpointsAsGiven(a, pt1, pt2) == << pt1, pt2 >>

\* the ordering of the two endpoints that SetPoints stores
OrderEndpoints(a, pt1, pt2) ==
    IF Along(a, pt1) < Along(a, pt2) THEN << pt1, pt2 >> ELSE << pt2, pt1 >>

\* CalcLabelPositions dividing by the number of points, not of gaps
CalcLabelPositionsByPoints(a) ==
    [a EXCEPT !.m_labelSpacingPhysicalOffset =
        safe_divide(Abs(Along(a, a.m_points[2]) - Along(a, a.m_points[1])),
                    Len(a.m_axisLabels))]

\* void Axis::CalcLabelPositions(): the pixel distance between two neighbouring
\* axis points; the divisor GetAxisPointsCount()-1 is a size_t
CalcLabelPositions(a) ==
    [a EXCEPT !.m_labelSpacingPhysicalOffset =
        safe_divide(Abs(Along(a, a.m_points[2]) - Along(a, a.m_points[1])),
                    IF Len(a.m_axisLabels) = 0 THEN SizeTMax
                    ELSE Len(a.m_axisLabels) - 1)]

\* PointCoordinate laying a vertical axis out like a horizontal one, from
\* its first endpoint on
PointCoordinateFromFirst(a, i) ==
    LET offset == a.m_labelSpacingPhysicalOffset
    IN TruncDiv(Along(a, a.m_points[1]) * offset.d + offset.n * i, offset.d)

\* the pixel CalcTickMarkPositions stores into the i-th axis point (i from 0)
PointCoordinate(a, i) ==
    LET offset == a.m_labelSpacingPhysicalOffset
    IN IF IsVertical(a)
       THEN TruncDiv(PointY(a.m_points[2]) * offset.d - offset.n * i, offset.d)
       ELSE TruncDiv(PointX(a.m_points[1]) * offset.d + offset.n * i, offset.d)

\* bool Axis::PointHasLabel(const double value) const
PointHasLabel(a, value) ==
    \/ LET Holds(p) == p.value = value
           pos == FirstIndex([k \in 1..Len(a.m_axisLabels) |-> Holds(a.m_axisLabels[k])], 1)
       IN pos <= Len(a.m_axisLabels) /\ a.m_axisLabels[pos].shown
    \/ \E c \in a.m_customAxisLabels : c.value = value

\* whether the tick-mark loop of CalcTickMarkPositions (i = start; i <= end;
\* i += GetTickMarkInterval()) comes to an end
TickLoopTerminates(a) ==
    a.m_tickMarkInterval > 0 \/ a.m_rangeStart > a.m_rangeEnd

\* the tick marks the loop of CalcTickMarkPositions pushes from i on
RECURSIVE GenerateTickMarks(_, _)
GenerateTickMarks(a, i) ==
    IF i <= a.m_rangeEnd
    THEN << [m_position |-> i,
             m_physicalCoordinate |-> GetPhysicalCoordinate(a, i).result,
             major |-> PointHasLabel(a, i)] >> \o
         GenerateTickMarks(a, i + a.m_tickMarkInterval)
    ELSE << >>

\* void Axis::CalcTickMarkPositions()
CalcTickMarkPositions(a) ==
    LET placed == [a EXCEPT !.m_axisLabels =
                      [i \in 1..Len(a.m_axisLabels) |->
                          [a.m_axisLabels[i] EXCEPT
                              !.physicalCoordinate = PointCoordinate(a, i - 1)]]]
    IN [placed EXCEPT !.m_tickMarks = GenerateTickMarks(placed, placed.m_rangeStart)]

---------------------------------------------------------------------------
(* The other mutators *)

\* std::reverse
RECURSIVE Reverse(_)
Reverse(seq) ==
    IF Len(seq) = 0 THEN << >> ELSE Reverse(Tail(seq)) \o << Head(seq) >>

\* ReverseScale recording the flag without reversing the points
ReverseScaleFlagOnly(a, reverse) ==
    [a EXCEPT !.m_scaledReserved = reverse, !.m_widestLabel = NotOkLabel, !.m_tallestLabel = NotOkLabel]

\* ReverseScale without the branch that undoes a reversal
ReverseScaleNeverBack(a, reverse) ==
    [a EXCEPT !.m_axisLabels = IF reverse /\ ~IsReversed(a)
                               THEN Reverse(a.m_axisLabels)
                               ELSE a.m_axisLabels,
              !.m_scaledReserved = reverse,
              !.m_widestLabel = NotOkLabel, !.m_tallestLabel = NotOkLabel]

\* void Axis::ReverseScale(bool reverse)
ReverseScale(a, reverse) ==
    [a EXCEPT !.m_axisLabels = IF reverse # IsReversed(a)
                               THEN Reverse(a.m_axisLabels)
                               ELSE a.m_axisLabels,
              !.m_scaledReserved = reverse,
              !.m_widestLabel = NotOkLabel, !.m_tallestLabel = NotOkLabel]

\* seq with elem inserted so that it becomes the pos-th element
InsertAt(seq, pos, elem) ==
    SubSeq(seq, 1, pos - 1) \o << elem >> \o SubSeq(seq, pos, Len(seq))

\* void Axis::AddUnevenAxisPoint(const double value, const wxString& label)
AddUnevenAxisPoint(a, value, label) ==
    LET Same(p) == p.value = value
        Before(p) == IF a.m_scaledReserved THEN value > p.value ELSE value < p.value
    IN IF FirstIndex([k \in 1..Len(a.m_axisLabels) |-> Same(a.m_axisLabels[k])], 1) <= Len(a.m_axisLabels) THEN a
       ELSE [a EXCEPT !.m_axisLabels =
                InsertAt(a.m_axisLabels, FirstIndex([k \in 1..Len(a.m_axisLabels) |-> Before(a.m_axisLabels[k])], 1),
                         AxisPoint(value, label, TRUE))]

\* the largest / smallest value among the axis points
MaxPointValue(a) ==
    CHOOSE v \in {p.value : p \in {a.m_axisLabels[i] : i \in 1..Len(a.m_axisLabels)}} :
        \A i \in 1..Len(a.m_axisLabels) : a.m_axisLabels[i].value <= v

MinPointValue(a) ==
    CHOOSE v \in {p.value : p \in {a.m_axisLabels[i] : i \in 1..Len(a.m_axisLabels)}} :
        \A i \in 1..Len(a.m_axisLabels) : a.m_axisLabels[i].value >= v

\* void Axis::AdjustRangeToLabels()
AdjustRangeToLabels(a) ==
    IF Len(a.m_axisLabels) = 0 THEN a
    ELSE IF IsReversed(a)
    THEN [a EXCEPT !.m_rangeStart = MaxPointValue(a), !.m_rangeEnd = MinPointValue(a)]
    ELSE [a EXCEPT !.m_rangeStart = MinPointValue(a), !.m_rangeEnd = MaxPointValue(a)]

\* void Axis::SetCustomLabel(const double tickValue, const Label& label)
SetCustomLabel(a, tickValue, label) ==
    [a EXCEPT !.m_customAxisLabels =
                 {c \in a.m_customAxisLabels : c.value # tickValue} \cup
                 {[value |-> tickValue, label |-> label]},
              !.m_widestLabel = NotOkLabel, !.m_tallestLabel = NotOkLabel]

\* A Label is [ok, text]; m_invalidLabel is the label GetCustomLabel returns
\* for a value that has no custom label
InvalidLabel == [ok |-> FALSE, text |-> TextLabel("")]

\* GetCustomLabel finding nothing, whatever the value
GetCustomLabelFindingNone(a, value) == InvalidLabel

\* const Label& Axis::GetCustomLabel(const double value) const
GetCustomLabel(a, value) ==
    IF \E c \in a.m_customAxisLabels : c.value = value
    THEN [ok |-> TRUE,
          text |-> (CHOOSE c \in a.m_customAxisLabels : c.value = value).label]
    ELSE InvalidLabel

AxisLabelDisplays ==
    {"DisplayCustomLabelsOrValues", "DisplayOnlyCustomLabels",
     "DisplayCustomLabelsAndValues", "NoDisplay"}

\* void Axis::SetLabelDisplay(const AxisLabelDisplay& display)
SetLabelDisplay(a, display) == [a EXCEPT !.m_labelDisplay = display]

\* bool Axis::IsShowingLabels() const
IsShowingLabels(a) == a.m_labelDisplay # "NoDisplay"

\* whether a wxString has no characters
IsEmptyText(s) == s.kind = "text" /\ s.text = ""

\* wxString operator+ over the pieces, left to right: the text is the
\* sequence of its pieces that have characters
Concatenate(pieces) == SelectSeq(pieces, LAMBDA s : ~IsEmptyText(s))

\* Label Axis::GetDisplayableValue(const AxisPoint& pt) const: the text of
\* the label it returns
GetDisplayableValue(a, pt) ==
    IF ~IsShowingLabels(a) THEN Concatenate(<< >>)
    ELSE LET customLabel == GetCustomLabel(a, pt.value)
         IN IF a.m_labelDisplay = "DisplayCustomLabelsAndValues"
            THEN Concatenate(<< customLabel.text, TextLabel("    "), pt.displayValue >>)
            ELSE IF \/ a.m_labelDisplay = "DisplayOnlyCustomLabels"
                    \/ (customLabel.ok /\ ~IsEmptyText(customLabel.text))
            THEN Concatenate(<< customLabel.text >>)
            ELSE Concatenate(<< pt.displayValue >>)

\* void Axis::SetDisplayInterval(const size_t interval, const size_t offset):
\* for interval > 0 (with interval 0 the second loop never advances)
SetDisplayInterval(a, interval, offset) ==
    [a EXCEPT !.m_displayInterval = interval,
              !.m_axisLabels =
                 [i \in 1..Len(a.m_axisLabels) |->
                     [a.m_axisLabels[i] EXCEPT
                         !.shown = (i - 1 >= offset /\ (i - 1 - offset) % interval = 0)]],
              !.m_widestLabel = NotOkLabel, !.m_tallestLabel = NotOkLabel]

AxisResetLevels ==
    {"AllSettings", "RangeAndLabelValues", "Brackets", "TitleHeaderFooter",
     "CosmeticSettings"}

\* void Axis::AddBracket(AxisBracket bracket)
AddBracket(a, bracket) ==
    [a EXCEPT !.m_brackets =
        Append(@, [bracket EXCEPT !.scaling = a.m_scaling,
                                  !.orientation = IF IsHorizontal(a) THEN "Horizontal"
                                                  ELSE "Vertical"])]

\* GetTitle().SetText(text), GetHeader().SetText(text) and
\* GetFooter().SetText(text); label is "m_title", "m_header" or "m_footer"
SetText(a, label, text) == [a EXCEPT ![label].text = text]

AxisLabelAlignments == {"AlignWithAxisLine", "AlignWithBoundary", "CenterOnAxisLine"}

\* void Axis::SetPerpendicularLabelAxisAlignment(const AxisLabelAlignment alignment)
SetPerpendicularLabelAxisAlignment(a, alignment) ==
    [a EXCEPT !.m_axisLabelAlignment = alignment]

\* void Axis::SetOutlineSize(const wxSize sz)
SetOutlineSize(a, sz) == [a EXCEPT !.m_outlineSize = sz]

\* Reset, the part for CosmeticSettings
ResetCosmeticSettings(a) ==
    [a EXCEPT !.m_axisLabelAlignment = "AlignWithAxisLine",
              !.m_outlineSize = wxDefaultSize]

\* void Axis::ClearBrackets()
ClearBrackets(a) == [a EXCEPT !.m_brackets = << >>]

\* Reset, the part for TitleHeaderFooter
ResetTitleHeaderFooter(a) ==
    [a EXCEPT !.m_title = BlankLabel, !.m_header = BlankLabel, !.m_footer = BlankLabel]

\* Reset, the part for RangeAndLabelValues
ResetRangeAndLabelValues(a) ==
    [a EXCEPT !.m_axisLabels = << >>,
              !.m_customAxisLabels = {},
              !.m_tickMarks = << >>,
              !.m_labelSpacingPhysicalOffset = [n |-> 0, d |-> 1],
              !.m_rangeStart = 0,
              !.m_rangeEnd = 0,
              !.m_displayPrecision = 0,
              !.m_interval = Unit,
              !.m_displayInterval = 1,
              !.m_widestLabel = NotOkLabel, !.m_tallestLabel = NotOkLabel]

\* Reset, the part for AllSettings alone
ResetOtherSettings(a) ==
    [a EXCEPT !.m_stackLabelsToFit = FALSE,
              !.m_enableAutoStacking = IsHorizontal(a),
              !.m_scaledReserved = FALSE,
              !.m_startAtZero = FALSE,
              !.m_labelDisplay = "DisplayCustomLabelsOrValues",
              !.m_title.textOrientation =
                  IF IsVertical(a) THEN "Vertical" ELSE "Horizontal"]

\* Reset taking every level for AllSettings
ResetWhateverLevel(a, level) ==
    ResetOtherSettings(ResetRangeAndLabelValues(ResetTitleHeaderFooter(
        ClearBrackets(ResetCosmeticSettings(a)))))

\* void Axis::Reset(const AxisResetLevel level)
Reset(a, level) ==
    LET all == level = "AllSettings"
        cosmetic == IF all \/ level = "CosmeticSettings"
                    THEN ResetCosmeticSettings(a) ELSE a
        brackets == IF all \/ level = "Brackets" THEN ClearBrackets(cosmetic)
                    ELSE cosmetic
        title == IF all \/ level = "TitleHeaderFooter"
                 THEN ResetTitleHeaderFooter(brackets) ELSE brackets
        range == IF all \/ level = "RangeAndLabelValues"
                 THEN ResetRangeAndLabelValues(title) ELSE title
    IN IF all THEN ResetOtherSettings(range) ELSE range

\* void Axis::CopySettings(const Axis& that)
CopySettings(a, that) ==
    [a EXCEPT !.m_axisLabels = that.m_axisLabels,
              !.m_customAxisLabels = that.m_customAxisLabels,
              !.m_tickMarks = that.m_tickMarks,
              !.m_labelOrientation = that.m_labelOrientation,
              !.m_stackLabelsToFit = that.m_stackLabelsToFit,
              !.m_enableAutoStacking = that.m_enableAutoStacking,
              !.m_labelSpacingPhysicalOffset = that.m_labelSpacingPhysicalOffset,
              !.m_scaledReserved = that.m_scaledReserved,
              !.m_startAtZero = that.m_startAtZero,
              !.m_labelDisplay = that.m_labelDisplay,
              !.m_axisLabelAlignment = that.m_axisLabelAlignment,
              !.m_rangeStart = that.m_rangeStart,
              !.m_rangeEnd = that.m_rangeEnd,
              !.m_firstDay = that.m_firstDay,
              !.m_lastDay = that.m_lastDay,
              !.m_dateDisplayInterval = that.m_dateDisplayInterval,
              !.m_displayPrecision = that.m_displayPrecision,
              !.m_interval = that.m_interval,
              !.m_displayInterval = that.m_displayInterval]

\* void Axis::StartAtZero(const bool startAtZero)
StartAtZero(a, startAtZero) == [a EXCEPT !.m_startAtZero = startAtZero]

---------------------------------------------------------------------------
(* Fitting the labels.  A device context dc is [charWidth, lineHeight], the *)
(* pixels a character and a line of text take at scaling 1.0; a label is   *)
(* measured as one line of characters of that width.                        *)

\* the number of characters of a wxString
TextLength(s) ==
    IF s.kind = "text" THEN Len(s.text)
    ELSE IF s.kind = "date" THEN 8
    ELSE LET digits == IF Abs(s.number) < 10 THEN 1
                       ELSE IF Abs(s.number) < 100 THEN 2 ELSE 3
         IN (IF s.number < 0 THEN 1 ELSE 0) + Max(digits, s.precision + 1)
            + (IF s.precision > 0 THEN 1 ELSE 0)

RECURSIVE PiecesLength(_)
PiecesLength(pieces) ==
    IF Len(pieces) = 0 THEN 0
    ELSE TextLength(Head(pieces)) + PiecesLength(Tail(pieces))

\* Label::GetBoundingBox(dc).GetWidth() / GetHeight() of a label with the
\* given text pieces, text orientation and scaling
LabelWidth(dc, text, textOrientation, scaling) ==
    IF textOrientation = "Horizontal"
    THEN TruncDiv(PiecesLength(text) * dc.charWidth * scaling, Unit)
    ELSE TruncDiv(dc.lineHeight * scaling, Unit)

LabelHeight(dc, text, textOrientation, scaling) ==
    IF textOrientation = "Horizontal"
    THEN TruncDiv(dc.lineHeight * scaling, Unit)
    ELSE TruncDiv(PiecesLength(text) * dc.charWidth * scaling, Unit)

AxisLabelOrientations == {"Parallel", "Perpendicular"}

\* void Axis::SetAxisLabelOrientation(const AxisLabelOrientation& orient)
SetAxisLabelOrientation(a, orient) ==
    [a EXCEPT !.m_labelOrientation = orient,
              !.m_widestLabel = NotOkLabel, !.m_tallestLabel = NotOkLabel]

\* void Axis::SetScaling(const double scaling)
SetScaling(a, scaling) ==
    [a EXCEPT !.m_scaling = scaling,
              !.m_brackets = [i \in 1..Len(a.m_brackets) |->
                                 [a.m_brackets[i] EXCEPT !.scaling = scaling]]]

\* void Axis::SetAxisLabelScaling(const double scaling)
SetAxisLabelScaling(a, scaling) == [a EXCEPT !.m_axisLabelScaling = scaling]

\* void Axis::ShowOuterLabels(const bool display)
ShowOuterLabels(a, display) == [a EXCEPT !.m_showOuterLabels = display]

\* void Axis::StackLabels(bool stack)
StackLabels(a, stack) == [a EXCEPT !.m_stackLabelsToFit = stack]

\* void Axis::EnableAutoStacking(const bool enable)
EnableAutoStacking(a, enable) == [a EXCEPT !.m_enableAutoStacking = enable]

\* IsPointDisplayingLabel without its test of whether the point is shown,
\* for a point that has a custom label
IsPointDisplayingLabelOfAnyCustom(a, point) ==
    LET hasCustomLabel == \E c \in a.m_customAxisLabels : c.value = point.value
    IN IF ~point.shown /\ ~hasCustomLabel THEN FALSE
       ELSE IF a.m_labelDisplay = "DisplayOnlyCustomLabels" /\ ~hasCustomLabel THEN FALSE
       ELSE IF ~hasCustomLabel /\ IsEmptyText(point.displayValue) THEN FALSE
       ELSE TRUE

\* bool Axis::IsPointDisplayingLabel(const AxisPoint& point) const
IsPointDisplayingLabel(a, point) ==
    LET hasCustomLabel == \E c \in a.m_customAxisLabels : c.value = point.value
    IN IF ~point.shown THEN FALSE
       ELSE IF a.m_labelDisplay = "DisplayOnlyCustomLabels" /\ ~hasCustomLabel THEN FALSE
       ELSE IF ~hasCustomLabel /\ IsEmptyText(point.displayValue) THEN FALSE
       ELSE TRUE

\* the pixel distance between the endpoints of the axis line
PlotSize(a) ==
    IF IsVertical(a) THEN Abs(PointY(a.m_points[1]) - PointY(a.m_points[2]))
    ELSE Abs(PointX(a.m_points[2]) - PointX(a.m_points[1]))

\* the number of labels the per-label budget is shared between: the points
\* displaying a label, less one if the two outer labels hang over the ends
BudgetedLabelsCount(a) ==
    LET points == a.m_axisLabels
        displayedLabelsCount ==
            Cardinality({i \in 1..Len(points) : IsPointDisplayingLabel(a, points[i])})
    IN IF /\ displayedLabelsCount > 2
          /\ Len(points) > 2
          /\ a.m_showOuterLabels
          /\ points[1].shown
          /\ PiecesLength(GetDisplayableValue(a, points[1])) > 0
          /\ points[Len(points)].shown
          /\ PiecesLength(GetDisplayableValue(a, points[Len(points)])) > 0
       THEN displayedLabelsCount - 1
       ELSE displayedLabelsCount

\* ScaleToScreenAndCanvas(value), in tenths of a pixel (DPI scale factor 1)
ScaleToScreenAndCanvas(a, value) == value * a.m_scaling

\* void Axis::CalcMaxLabelWidth(): the value it gives m_maxLabelWidth
MaxLabelWidth(a) ==
    LET width == TruncDiv(safe_divide_integer(PlotSize(a), BudgetedLabelsCount(a)) * Unit
                            - ScaleToScreenAndCanvas(a, 2), Unit)
    IN IF a.m_stackLabelsToFit THEN width * 2 ELSE width

\* void Axis::CalcMaxLabelWidth()
CalcMaxLabelWidth(a) ==
    [a EXCEPT !.m_maxLabelWidth = MaxLabelWidth(a),
              !.m_widestLabel = NotOkLabel, !.m_tallestLabel = NotOkLabel]

\* the text orientation GetWidestTextLabel and GetTallestTextLabel measure with
MeasuredTextOrientation(a) ==
    IF \/ (IsVertical(a) /\ a.m_labelOrientation = "Parallel")
       \/ (IsHorizontal(a) /\ a.m_labelOrientation = "Perpendicular")
    THEN "Vertical" ELSE "Horizontal"

\* the loop of GetWidestTextLabel / GetTallestTextLabel from the i-th axis
\* point on: `best` is the label kept so far and `extent` its measure
RECURSIVE LargestLabelFrom(_, _, _, _, _, _)
LargestLabelFrom(a, dc, byHeight, i, best, extent) ==
    IF i > Len(a.m_axisLabels) THEN best
    ELSE LET pt == a.m_axisLabels[i]
             text == GetDisplayableValue(a, pt)
             orientation == MeasuredTextOrientation(a)
             measure == IF byHeight
                        THEN LabelHeight(dc, text, orientation, a.m_axisLabelScaling)
                        ELSE LabelWidth(dc, text, orientation, a.m_axisLabelScaling)
         IN IF IsPointDisplayingLabel(a, pt) /\ measure > extent
            THEN LargestLabelFrom(a, dc, byHeight, i + 1,
                                  [ok |-> TRUE, text |-> text,
                                   textOrientation |-> orientation,
                                   scaling |-> a.m_axisLabelScaling], measure)
            ELSE LargestLabelFrom(a, dc, byHeight, i + 1, best, extent)

\* a default-constructed Label
DefaultLabel ==
    [ok |-> TRUE, text |-> << >>, textOrientation |-> "Horizontal", scaling |-> Unit]

\* the widest / tallest among the labels the axis displays now
WidestDisplayedLabel(a, dc) == LargestLabelFrom(a, dc, FALSE, 1, DefaultLabel, 0)

TallestDisplayedLabel(a, dc) == LargestLabelFrom(a, dc, TRUE, 1, DefaultLabel, 0)

\* Label Axis::GetWidestTextLabel(wxDC& dc) const: m_widestLabel after the call,
\* which is also the label it returns
GetWidestTextLabel(a, dc) ==
    IF a.m_widestLabel.ok
    THEN [a.m_widestLabel EXCEPT !.scaling = a.m_axisLabelScaling]
    ELSE IF Len(a.m_axisLabels) = 0 THEN NotOkLabel
    ELSE WidestDisplayedLabel(a, dc)

\* Label Axis::GetTallestTextLabel(wxDC& dc) const
GetTallestTextLabel(a, dc) ==
    IF a.m_tallestLabel.ok
    THEN [a.m_tallestLabel EXCEPT !.scaling = a.m_axisLabelScaling]
    ELSE IF Len(a.m_axisLabels) = 0 THEN NotOkLabel
    ELSE TallestDisplayedLabel(a, dc)

\* the loops of CalcBestScalingToFitLabels: the scaling, lowered by 0.1 at a
\* time while it is above 1.0 and the label is larger than the budget
RECURSIVE FittedScaling(_, _, _, _, _)
FittedScaling(a, dc, label, byHeight, currentScaling) ==
    LET measure == IF byHeight
                   THEN LabelHeight(dc, label.text, label.textOrientation, label.scaling)
                   ELSE LabelWidth(dc, label.text, label.textOrientation, label.scaling)
    IN IF currentScaling > Unit /\ measure > a.m_maxLabelWidth
       THEN FittedScaling(a, dc, [label EXCEPT !.scaling = currentScaling - 1],
                          byHeight, currentScaling - 1)
       ELSE currentScaling

\* CalcBestScalingToFitLabels without its tests for an axis with no points
\* and for a budget that is not positive, on an axis whose labels all fit
CalcBestScalingToFitLabelsUntested(a, dc) ==
    LET best == Max(Unit, a.m_axisLabelScaling)
    IN [axis |-> SetAxisLabelScaling(CalcMaxLabelWidth(a), best),
        result |-> best, stored |-> << best >>]

\* double Axis::CalcBestScalingToFitLabels(wxDC& dc): the axis after the call,
\* the scaling it returns and the scaling it passes to SetAxisLabelScaling
\* (none when it stores nothing)
CalcBestScalingToFitLabels(a, dc) ==
    IF Len(a.m_axisLabels) = 0
    THEN [axis |-> a, result |-> a.m_scaling, stored |-> << >>]
    ELSE LET budgeted == CalcMaxLabelWidth(a)
         IN IF budgeted.m_maxLabelWidth <= 0
            THEN [axis |-> SetAxisLabelScaling(budgeted, a.m_scaling),
                  result |-> a.m_scaling, stored |-> << a.m_scaling >>]
            ELSE LET byHeight == a.m_labelOrientation = "Perpendicular"
                     label == IF byHeight THEN GetTallestTextLabel(budgeted, dc)
                              ELSE GetWidestTextLabel(budgeted, dc)
                     measured == IF byHeight
                                 THEN [budgeted EXCEPT !.m_tallestLabel = label]
                                 ELSE [budgeted EXCEPT !.m_widestLabel = label]
                     currentScaling ==
                         FittedScaling(measured, dc, label, byHeight,
                                       a.m_axisLabelScaling)
                     best == Max(Unit, currentScaling)
                 IN [axis |-> SetAxisLabelScaling(measured, best),
                     result |-> best, stored |-> << best >>]

\* the budget ShouldLabelsBeStackedToFit compares each label with
\* (maxTextSize)
MaxTextSize(a) ==
    TruncDiv(safe_divide_integer(PlotSize(a), BudgetedLabelsCount(a)) * Unit
               - (IF a.m_labelOrientation = "Perpendicular" THEN 2 * a.m_scaling ELSE 0),
             Unit)

\* the measure ShouldLabelsBeStackedToFit takes of the label of the i-th axis
\* point: its height or width at the scaling of the axis, halved for the
\* first and the last point when outer labels are shown
AxisTextWidth(a, dc, i) ==
    LET text == GetDisplayableValue(a, a.m_axisLabels[i])
        measure == IF a.m_labelOrientation = "Perpendicular"
                   THEN LabelHeight(dc, text, "Horizontal", a.m_scaling)
                   ELSE LabelWidth(dc, text, "Horizontal", a.m_scaling)
    IN IF a.m_showOuterLabels /\ (i = 1 \/ i = Len(a.m_axisLabels))
       THEN TruncDiv(measure, 2)
       ELSE measure

\* ShouldLabelsBeStackedToFit without its test of a budget that is not positive
ShouldLabelsBeStackedWhateverBudget(a, dc) ==
    IF ~a.m_enableAutoStacking THEN a.m_stackLabelsToFit
    ELSE \E i \in 1..Len(a.m_axisLabels) :
            /\ IsPointDisplayingLabel(a, a.m_axisLabels[i])
            /\ AxisTextWidth(a, dc, i) >= MaxTextSize(a)

\* bool Axis::ShouldLabelsBeStackedToFit(wxDC& dc) const
ShouldLabelsBeStackedToFit(a, dc) ==
    IF ~a.m_enableAutoStacking THEN a.m_stackLabelsToFit
    ELSE IF MaxTextSize(a) <= 0 THEN FALSE
    ELSE \E i \in 1..Len(a.m_axisLabels) :
            /\ IsPointDisplayingLabel(a, a.m_axisLabels[i])
            /\ AxisTextWidth(a, dc, i) >= MaxTextSize(a)

\* void Axis::SetPoints(const wxPoint pt1, const wxPoint pt2, wxDC& dc)
SetPoints(a, pt1, pt2, dc) ==
    CalcBestScalingToFitLabels(
        CalcTickMarkPositions(
            CalcLabelPositions([a EXCEPT !.m_points = OrderEndpoints(a, pt1, pt2)])),
        dc).axis

---------------------------------------------------------------------------
(* The bounding box of an axis.  A wxRect is [x, y, width, height].  The   *)
(* axis displays no tick marks (TickMark::DisplayType::NoDisplay), has its  *)
(* labels on one side, no font background colour and its parallel labels   *)
(* centred on their points; title, header and footer are shown and centred. *)

\* wxRect::wxRect(const wxPoint& point1, const wxPoint& point2)
wxRect(point1, point2) ==
    LET w == PointX(point2) - PointX(point1)
        h == PointY(point2) - PointY(point1)
    IN [x |-> IF w < 0 THEN PointX(point2) ELSE PointX(point1),
        y |-> IF h < 0 THEN PointY(point2) ELSE PointY(point1),
        width |-> Abs(w) + 1,
        height |-> Abs(h) + 1]

\* wxRect::GetRight() and wxRect::GetBottom()
GetRight(rect) == rect.x + rect.width - 1

GetBottom(rect) == rect.y + rect.height - 1

\* wxRect::Inflate(wxCoord dx, wxCoord dy)
Inflate(rect, dx, dy) ==
    LET wide == IF -2 * dx > rect.width
                THEN [rect EXCEPT !.x = @ + rect.width \div 2, !.width = 0]
                ELSE [rect EXCEPT !.x = @ - dx, !.width = @ + 2 * dx]
    IN IF -2 * dy > wide.height
       THEN [wide EXCEPT !.y = @ + wide.height \div 2, !.height = 0]
       ELSE [wide EXCEPT !.y = @ - dy, !.height = @ + 2 * dy]

\* a pair of corners, and the rectangle between a pair of corners
CornersOf(topLeft, bottomRight) == [topLeft |-> topLeft, bottomRight |-> bottomRight]

CornersRect(corners) == wxRect(corners.topLeft, corners.bottomRight)

\* GetSpacingBetweenLabelsAndLine(), in pixels at scaling 1.0
GetSpacingBetweenLabelsAndLine == 5

\* a wxCoord after a double, given in tenths of a pixel, was added to it
Moved(coord, tenths) == TruncDiv(coord * Unit + tenths, Unit)

Anchorings ==
    {"TopLeftCorner", "BottomLeftCorner", "Center", "TopRightCorner",
     "BottomRightCorner"}

\* void GraphItemBase::SetAnchoring(const Anchoring placement)
SetAnchoring(a, placement) == [a EXCEPT !.m_anchoring = placement]

\* void GraphItemBase::SetFreeFloating(const bool freeFloat)
SetFreeFloating(a, freeFloat) == [a EXCEPT !.m_freeFloating = freeFloat]

\* GetFirstDisplayedLabel / GetLastDisplayedLabel: the index of the first /
\* last axis point that displays a label, 0 if none does
GetFirstDisplayedLabel(a) ==
    LET first == FirstIndex([k \in 1..Len(a.m_axisLabels) |->
                                IsPointDisplayingLabel(a, a.m_axisLabels[k])], 1)
    IN IF first > Len(a.m_axisLabels) THEN 0 ELSE first

GetLastDisplayedLabel(a) ==
    LET displaying == {k \in 1..Len(a.m_axisLabels) :
                          IsPointDisplayingLabel(a, a.m_axisLabels[k])}
    IN IF displaying = {} THEN 0
       ELSE CHOOSE k \in displaying : \A j \in displaying : j <= k

\* how far the label of the i-th axis point reaches from its point along
\* the axis line: half the width of parallel, half the height of
\* perpendicular labels
HalfLabelExtent(a, dc, i) ==
    LET text == GetDisplayableValue(a, a.m_axisLabels[i])
    IN IF a.m_labelOrientation = "Parallel"
       THEN LabelWidth(dc, text, "Horizontal", a.m_axisLabelScaling) \div 2
       ELSE LabelHeight(dc, text, "Horizontal", a.m_axisLabelScaling) \div 2

\* void Axis::CalcHorizontalLabelOverhang(wxDC& dc, wxPoint& topLeftCorner,
\*                                        wxPoint& bottomRightCorner) const
CalcHorizontalLabelOverhang(a, dc, corners) ==
    LET first == GetFirstDisplayedLabel(a)
        last == GetLastDisplayedLabel(a)
        firstPos == GetPhysicalCoordinate(a, a.m_axisLabels[first].value)
        lastPos == GetPhysicalCoordinate(a, a.m_axisLabels[last].value)
        left == IF first > 0 /\ firstPos.ok
                THEN PointX(corners.topLeft) -
                        (HalfLabelExtent(a, dc, first) -
                            (firstPos.result - PointX(a.m_points[1])))
                ELSE PointX(corners.topLeft)
        right == IF last > 0 /\ lastPos.ok
                 THEN PointX(corners.bottomRight) +
                         (HalfLabelExtent(a, dc, last) -
                             (PointX(a.m_points[2]) - lastPos.result))
                 ELSE PointX(corners.bottomRight)
    IN [topLeft |-> << left, PointY(corners.topLeft) >>,
        bottomRight |-> << right, PointY(corners.bottomRight) >>]

\* void Axis::CalcVerticalLabelOverhang(wxDC& dc, wxPoint& topLeftCorner,
\*                                      wxPoint& bottomRightCorner) const
CalcVerticalLabelOverhang(a, dc, corners) ==
    LET first == GetFirstDisplayedLabel(a)
        last == GetLastDisplayedLabel(a)
        firstPos == GetPhysicalCoordinate(a, a.m_axisLabels[first].value)
        lastPos == GetPhysicalCoordinate(a, a.m_axisLabels[last].value)
        bottom == IF first > 0 /\ firstPos.ok
                  THEN PointY(corners.bottomRight) +
                          (HalfLabelExtent(a, dc, first) -
                              (PointY(a.m_points[2]) - firstPos.result))
                  ELSE PointY(corners.bottomRight)
        top == IF last > 0 /\ lastPos.ok
               THEN PointY(corners.topLeft) -
                       (IF a.m_labelOrientation = "Parallel"
                        THEN HalfLabelExtent(a, dc, last)
                        ELSE HalfLabelExtent(a, dc, last) -
                                (lastPos.result - PointY(a.m_points[1])))
               ELSE PointY(corners.topLeft)
    IN [topLeft |-> << PointX(corners.topLeft), top >>,
        bottomRight |-> << PointX(corners.bottomRight), bottom >>]

\* wxCoord AxisBracket::CalcWidth(wxDC& dc, ...): the room the label of the
\* bracket takes across the axis line
CalcWidth(bracket, dc) ==
    IF bracket.orientation = "Horizontal"
    THEN LabelHeight(dc, << bracket.label >>, "Horizontal", bracket.scaling)
    ELSE LabelWidth(dc, << bracket.label >>, "Horizontal", bracket.scaling)

\* wxCoord Axis::CalcBracketsWidth(wxDC& dc) const
RECURSIVE CalcBracketsWidth(_, _)
CalcBracketsWidth(brackets, dc) ==
    IF Len(brackets) = 0 THEN 0
    ELSE Max(CalcWidth(Head(brackets), dc), CalcBracketsWidth(Tail(brackets), dc))

\* the corners after the side of the box that faces away from the plot was
\* moved outwards by an amount in tenths of a pixel
MovedOutwards(a, corners, tenths) ==
    CASE a.m_type = "LeftYAxis" ->
            [corners EXCEPT !.topLeft[1] = Moved(@, -tenths)]
      [] a.m_type = "RightYAxis" ->
            [corners EXCEPT !.bottomRight[1] = Moved(@, tenths)]
      [] a.m_type = "BottomXAxis" ->
            [corners EXCEPT !.bottomRight[2] = Moved(@, tenths)]
      [] a.m_type = "TopXAxis" ->
            [corners EXCEPT !.topLeft[2] = Moved(@, -tenths)]

\* the lambda adjustMarginForHeaderOrFooter of GetBoundingBox, which is
\* called for a header or footer that has text
AdjustMarginForHeaderOrFooter(a, dc, corners, label, isHeader) ==
    LET width == LabelWidth(dc, << label.text >>, label.textOrientation, a.m_scaling)
        height == LabelHeight(dc, << label.text >>, label.textOrientation, a.m_scaling)
        anchor == IF isHeader = IsVertical(a) THEN a.m_points[1] ELSE a.m_points[2]
        labelBox == [x |-> PointX(anchor) - width \div 2,
                     y |-> PointY(anchor) - height \div 2,
                     width |-> width, height |-> height]
        space == ScaleToScreenAndCanvas(a, GetSpacingBetweenLabelsAndLine)
        pushed ==
            IF IsVertical(a)
            THEN IF isHeader
                 THEN [corners EXCEPT !.topLeft[2] = Moved(@, -(height * Unit + space))]
                 ELSE [corners EXCEPT !.bottomRight[2] = Moved(@, height * Unit + space)]
            ELSE IF isHeader
                 THEN [corners EXCEPT !.bottomRight[1] = Moved(@, width * Unit + space)]
                 ELSE [corners EXCEPT !.topLeft[1] = Moved(@, -(width * Unit + space))]
    IN IF IsEmptyText(label.text) THEN corners
       ELSE IF IsVertical(a)
       THEN [pushed EXCEPT !.topLeft[1] = Min(@, labelBox.x),
                           !.bottomRight[1] = Max(@, GetRight(labelBox))]
       ELSE [pushed EXCEPT !.topLeft[2] = Min(@, labelBox.y),
                           !.bottomRight[2] = Max(@, labelBox.y + labelBox.height)]

\* the corners GetBoundingBox arrives at before it clamps and inflates them
UnclampedCorners(a, dc, textMeasurement) ==
    LET space == ScaleToScreenAndCanvas(a, GetSpacingBetweenLabelsAndLine)
        spaceBetweenAxisAndLabel == IF IsShowingLabels(a) THEN TruncDiv(space, Unit) ELSE 0
        labels == IF a.m_stackLabelsToFit THEN textMeasurement * 2 ELSE textMeasurement
        centred == a.m_axisLabelAlignment = "CenterOnAxisLine"
        top == a.m_points[1]
        bottom == a.m_points[2]
        lineAndLabels ==
            CASE a.m_type = "LeftYAxis" ->
                    [topLeft |-> << PointX(top) - spaceBetweenAxisAndLabel
                                        - (IF centred THEN 0 ELSE labels),
                                    PointY(top) >>,
                     bottomRight |-> << PointX(bottom)
                                            + (IF centred THEN textMeasurement \div 2 ELSE 0),
                                        PointY(bottom) >>]
              [] a.m_type = "RightYAxis" ->
                    [topLeft |-> << PointX(top) - (IF centred THEN textMeasurement ELSE 0),
                                    PointY(top) >>,
                     bottomRight |-> << PointX(bottom) + spaceBetweenAxisAndLabel
                                            + (IF centred THEN textMeasurement \div 2
                                               ELSE labels),
                                        PointY(bottom) >>]
              [] a.m_type = "BottomXAxis" ->
                    [topLeft |-> top,
                     bottomRight |-> << PointX(bottom),
                                        PointY(bottom) + spaceBetweenAxisAndLabel + labels >>]
              [] a.m_type = "TopXAxis" ->
                    [topLeft |-> << PointX(top),
                                    PointY(top) - spaceBetweenAxisAndLabel - labels >>,
                     bottomRight |-> bottom]
        overhung == IF IsVertical(a) THEN CalcVerticalLabelOverhang(a, dc, lineAndLabels)
                    ELSE CalcHorizontalLabelOverhang(a, dc, lineAndLabels)
        \* the brackets and the title each move the outer side by their
        \* width and the spacing, if there are any
        bracketed == MovedOutwards(a, overhung,
                                   IF Len(a.m_brackets) > 0
                                   THEN CalcBracketsWidth(a.m_brackets, dc) * Unit + space
                                   ELSE 0)
        title == IF IsVertical(a)
                 THEN LabelWidth(dc, << a.m_title.text >>, a.m_title.textOrientation,
                                 a.m_scaling)
                 ELSE LabelHeight(dc, << a.m_title.text >>, a.m_title.textOrientation,
                                  a.m_scaling)
        titled == MovedOutwards(a, bracketed,
                                IF ~IsEmptyText(a.m_title.text)
                                THEN title * Unit + space ELSE 0)
        headed == AdjustMarginForHeaderOrFooter(a, dc, titled, a.m_header, TRUE)
    IN AdjustMarginForHeaderOrFooter(a, dc, headed, a.m_footer, FALSE)

\* the end of GetBoundingBox: the rectangle clamped to m_maxHeight and
\* m_maxWidth and then inflated by the outline size, if one is specified
OutlinedRect(a, adjustedRect) ==
    LET lower == IF Len(a.m_maxHeight) > 0 /\ a.m_maxHeight[1] < adjustedRect.height
                 THEN [adjustedRect EXCEPT !.height = a.m_maxHeight[1]]
                 ELSE adjustedRect
        narrower == IF Len(a.m_maxWidth) > 0 /\ a.m_maxWidth[1] < lower.width
                    THEN [lower EXCEPT !.width = a.m_maxWidth[1]]
                    ELSE lower
    IN IF a.m_outlineSize.width # -1 /\ a.m_outlineSize.height # -1
       THEN Inflate(narrower,
                    TruncDiv(ScaleToScreenAndCanvas(a, a.m_outlineSize.width), Unit),
                    TruncDiv(ScaleToScreenAndCanvas(a, a.m_outlineSize.height), Unit))
       ELSE narrower

\* the rectangle GetBoundingBox returns, and the axis after the call, when
\* `label` is what GetWidestTextLabel (perpendicular labels) or
\* GetTallestTextLabel (parallel labels) gave its lambda textMeasurement
BoundingBoxFrom(a, dc, label) ==
    LET perpendicular == a.m_labelOrientation = "Perpendicular"
        textMeasurement ==
            IF ~IsShowingLabels(a) THEN 0
            ELSE IF perpendicular
            THEN LabelWidth(dc, label.text, label.textOrientation, label.scaling)
            ELSE LabelHeight(dc, label.text, label.textOrientation, label.scaling)
        measured == IF ~IsShowingLabels(a) THEN a
                    ELSE IF perpendicular THEN [a EXCEPT !.m_widestLabel = label]
                    ELSE [a EXCEPT !.m_tallestLabel = label]
    IN [axis |-> measured,
        rect |-> OutlinedRect(a, CornersRect(UnclampedCorners(a, dc, textMeasurement)))]

\* wxRect Axis::GetBoundingBox(wxDC& dc) const: the rectangle it returns and
\* the axis after the call, its label cache filled
GetBoundingBox(a, dc) ==
    BoundingBoxFrom(a, dc, IF a.m_labelOrientation = "Perpendicular"
                           THEN GetWidestTextLabel(a, dc)
                           ELSE GetTallestTextLabel(a, dc))

\* the part of the bounding box `box` that GetProtrudingBoundingBox keeps:
\* what lies on the outer side of the axis line
ProtrudingPart(a, box) ==
    LET top == a.m_points[1]
    IN CASE a.m_type = "LeftYAxis" ->
               [box EXCEPT !.width = PointX(top) - box.x + 1]
         [] a.m_type = "RightYAxis" ->
               [box EXCEPT !.width = @ - (PointX(top) - box.x), !.x = PointX(top)]
         [] a.m_type = "BottomXAxis" ->
               [box EXCEPT !.y = PointY(top), !.height = @ - (PointY(top) - box.y)]
         [] a.m_type = "TopXAxis" ->
               [box EXCEPT !.height = PointY(top) - box.y + 1]

\* wxRect Axis::GetProtrudingBoundingBox(wxDC& dc) const
GetProtrudingBoundingBox(a, dc) == ProtrudingPart(a, GetBoundingBox(a, dc).rect)

\* the part of SetBoundingBox that places the axis line in rect, given the
\* bounding box and the protruding box of the axis and the corners
\* `overhung` that the label overhang moved the ends of the axis line to
PlaceInBox(a, rect, dc, boundingBox, protrudingBox, overhung) ==
    LET \* the overhang at the top / left and at the bottom / right
        before == Along(a, a.m_points[1]) - Along(a, overhung.topLeft)
        after == Along(a, overhung.bottomRight) - Along(a, a.m_points[2])
        space == ScaleToScreenAndCanvas(a, GetSpacingBetweenLabelsAndLine)
        header == a.m_header
        footer == a.m_footer
        \* the header is at the top of a vertical and at the right of a
        \* horizontal axis
        headerPadding ==
            IF IsEmptyText(header.text) THEN IF IsVertical(a) THEN before ELSE after
            ELSE IF IsVertical(a)
            THEN Moved(0, LabelHeight(dc, << header.text >>, header.textOrientation,
                                      a.m_scaling) * Unit + space + before * Unit)
            ELSE Moved(0, LabelWidth(dc, << header.text >>, header.textOrientation,
                                     a.m_scaling) * Unit + space + after * Unit)
        footerPadding ==
            IF IsEmptyText(footer.text) THEN IF IsVertical(a) THEN after ELSE before
            ELSE Moved(0, LabelWidth(dc, << footer.text >>, footer.textOrientation,
                                     a.m_scaling) * Unit + space
                              + (IF IsVertical(a) THEN after ELSE before) * Unit)
        leftAnchored == a.m_anchoring \in {"TopLeftCorner", "BottomLeftCorner"}
        centred == a.m_anchoring = "Center"
        inner == boundingBox.width - protrudingBox.width
        below == boundingBox.height - protrudingBox.height
        across ==
            CASE a.m_type = "LeftYAxis" ->
                    rect.x + (IF leftAnchored THEN protrudingBox.width
                              ELSE IF centred THEN rect.width \div 2
                              ELSE rect.width - inner)
              [] a.m_type = "RightYAxis" ->
                    rect.x + (IF leftAnchored THEN inner
                              ELSE IF centred THEN rect.width \div 2
                              ELSE rect.width - protrudingBox.width)
              [] a.m_type = "BottomXAxis" ->
                    IF leftAnchored THEN rect.y + below
                    ELSE IF centred THEN rect.y + rect.height \div 2
                    ELSE GetBottom(rect) - protrudingBox.height
              [] a.m_type = "TopXAxis" ->
                    IF leftAnchored THEN rect.y + protrudingBox.height
                    ELSE IF centred THEN rect.y + rect.height \div 2
                    ELSE GetBottom(rect) - below
        pt1 == IF IsVertical(a) THEN << across, rect.y + headerPadding >>
               ELSE << rect.x + footerPadding, across >>
        pt2 == IF IsVertical(a) THEN << across, GetBottom(rect) - footerPadding >>
               ELSE << IF centred THEN GetRight(rect) - headerPadding
                       ELSE rect.x + (rect.width - headerPadding),
                       across >>
    IN [SetPoints(a, pt1, pt2, dc)
           EXCEPT !.m_maxHeight = IF IsHorizontal(a) THEN << rect.height >> ELSE @,
                  !.m_maxWidth = IF IsVertical(a) THEN << rect.width >> ELSE @]

\* the corners the label overhang moves the ends of the axis line to
LineOverhang(a, dc) ==
    IF IsVertical(a)
    THEN CalcVerticalLabelOverhang(a, dc, CornersOf(a.m_points[1], a.m_points[2]))
    ELSE CalcHorizontalLabelOverhang(a, dc, CornersOf(a.m_points[1], a.m_points[2]))

\* SetBoundingBox once the scalings are set: the boxes are measured and the
\* axis line is placed on the axis as GetBoundingBox left it
MeasureAndPlace(boxed, rect, dc) ==
    PlaceInBox(boxed.axis, rect, dc, boxed.rect,
               GetProtrudingBoundingBox(boxed.axis, dc), LineOverhang(boxed.axis, dc))

\* void Axis::SetBoundingBox(const wxRect& rect, wxDC& dc,
\*                           const double parentScaling)
SetBoundingBox(a, rect, dc, parentScaling) ==
    IF a.m_freeFloating THEN a
    ELSE MeasureAndPlace(
             GetBoundingBox(SetAxisLabelScaling(SetScaling(a, parentScaling),
                                                parentScaling), dc),
             rect, dc)

---------------------------------------------------------------------------
(* Date ranges.  A day is numbered from 1 January (day 0) of a year that is  *)
(* not a leap year and begins on a Saturday; dates carry no time of day.     *)

MonthLengths == << 31, 28, 31, 30, 31, 30, 31, 31, 30, 31, 30, 31 >>

\* wxDateTime::GetWeekDay(), Sunday being 0
WeekDay(day) == (day + 6) % 7

\* the month (1..12) of a day, searched from month m whose first day is `first`
RECURSIVE MonthFrom(_, _, _)
MonthFrom(day, m, first) ==
    IF m = 12 \/ day < first + MonthLengths[m] THEN m
    ELSE MonthFrom(day, m + 1, first + MonthLengths[m])

\* the first day of the month of a day, searched likewise
RECURSIVE MonthStartFrom(_, _, _)
MonthStartFrom(day, m, first) ==
    IF m = 12 \/ day < first + MonthLengths[m] THEN first
    ELSE MonthStartFrom(day, m + 1, first + MonthLengths[m])

\* wxDateTime::GetDay()
DayOfMonth(day) == day - MonthStartFrom(day, 1, 0) + 1

\* wxDateTime::SetToLastMonthDay()
LastMonthDay(day) == MonthStartFrom(day, 1, 0) + MonthLengths[MonthFrom(day, 1, 0)] - 1

\* the loops that step m_firstDay back, and m_lastDay forward, to firstWeekDay
RECURSIVE BackToWeekDay(_, _)
BackToWeekDay(day, firstWeekDay) ==
    IF WeekDay(day) = firstWeekDay THEN day ELSE BackToWeekDay(day - 1, firstWeekDay)

RECURSIVE ForwardToWeekDay(_, _)
ForwardToWeekDay(day, firstWeekDay) ==
    IF WeekDay(day) = firstWeekDay THEN day ELSE ForwardToWeekDay(day + 1, firstWeekDay)

\* the days, counted from m_firstDay, at which one of SetRange's labelling
\* loops calls SetCustomLabel: every 7th day, or the first day of each month
LabelledDays(days, firstDay, monthly) ==
    {currentDate \in 0..days :
        IF monthly THEN DayOfMonth(firstDay + currentDate) = 1
        ELSE currentDate % 7 = 0}

\* the effect of one labelling loop: SetCustomLabel(currentDate,
\* Label(dateLabel.FormatDate())) at each of these days
LabelDates(a, days, firstDay, monthly) ==
    LET values == {currentDate * Unit : currentDate \in LabelledDays(days, firstDay, monthly)}
    IN [a EXCEPT !.m_customAxisLabels =
                    {c \in a.m_customAxisLabels : c.value \notin values} \cup
                    {[value |-> currentDate * Unit,
                      label |-> FormatDate(firstDay + currentDate)] :
                        currentDate \in LabelledDays(days, firstDay, monthly)},
                 !.m_widestLabel =
                    IF LabelledDays(days, firstDay, monthly) = {} THEN a.m_widestLabel
                    ELSE NotOkLabel,
                 !.m_tallestLabel =
                    IF LabelledDays(days, firstDay, monthly) = {} THEN a.m_tallestLabel
                    ELSE NotOkLabel]

DateIntervals == {"Daily", "Weekly", "Monthly"}

\* void Axis::SetRange(const wxDateTime& startDate, const wxDateTime& endDate,
\*                     const DateInterval displayInterval, const FiscalYear FYtype)
\* for the daily, weekly and monthly intervals; `now` is wxDateTime::Now() and
\* firstWeekDay what wxDateTime::GetFirstWeekDay gives for the locale
SetRangeDates(a, startDate, endDate, displayInterval, now, firstWeekDay) ==
    IF ~startDate.valid \/ ~endDate.valid THEN a
    ELSE
     LET start == Min(now, startDate.day)
         firstDay == IF displayInterval = "Monthly" THEN MonthStartFrom(start, 1, 0)
                     ELSE IF displayInterval = "Weekly"
                     THEN BackToWeekDay(start, firstWeekDay)
                     ELSE start
         lastDay == IF displayInterval = "Monthly" THEN LastMonthDay(endDate.day)
                    ELSE IF displayInterval = "Weekly"
                    THEN ForwardToWeekDay(endDate.day, firstWeekDay) - 1
                    ELSE endDate.day
         days == lastDay - firstDay
         dated == [a EXCEPT !.m_firstDay = Date(firstDay),
                            !.m_lastDay = Date(lastDay),
                            !.m_dateDisplayInterval = displayInterval]
         ranged == SetRange(dated, 0, days * Unit, 0, Unit,
                            IF displayInterval = "Weekly" THEN 7 ELSE 1)
         labelled == LabelDates(ranged, days, firstDay, displayInterval = "Monthly")
     IN [labelled EXCEPT !.m_labelDisplay = "DisplayOnlyCustomLabels"]

---------------------------------------------------------------------------
(* A bar of a bar chart (BarChart::Bar).  Lengths are in tenths; the block *)
(* lengths the model uses are multiples of 0.5, which the float that       *)
(* std::accumulate sums in holds exactly.                                   *)

\* std::accumulate over the blocks of block.GetLength(), from 0
RECURSIVE AccumulateLength(_)
AccumulateLength(blocks) ==
    IF Len(blocks) = 0 THEN 0
    ELSE Head(blocks).m_length + AccumulateLength(Tail(blocks))

\* BarBlock(BarBlockInfo(len))
BarBlock(len) == [m_length |-> len]

\* Bar() noexcept
NewBar ==
    [m_blocks |-> << >>, m_length |-> 0, m_customWidth |-> << >>, m_axisPosition |-> 0]

\* Bar(axisPosition, blocks, barLabel, axisLabel, effect, opacity, customWidth)
Bar(axisPosition, blocks, customWidth) ==
    [m_blocks |-> blocks,
     m_length |-> AccumulateLength(blocks),
     m_customWidth |-> IF Len(customWidth) = 0 \/ customWidth[1] <= 0 THEN << >>
                       ELSE customWidth,
     m_axisPosition |-> axisPosition]

\* double Bar::GetLength() const noexcept
GetLength(b) == b.m_length

\* void Bar::AddBlock(const BarBlock& block) noexcept
AddBlock(b, block) ==
    [b EXCEPT !.m_blocks = Append(@, block),
              !.m_length = AccumulateLength(Append(b.m_blocks, block))]

\* void Bar::ClearBlocks() noexcept
ClearBlocks(b) == [b EXCEPT !.m_blocks = << >>]

---------------------------------------------------------------------------
(* A table (Table): m_table is a sequence of rows, a row a sequence of     *)
(* cells, a cell the text of its value.  The record of a table also keeps   *)
(* the last call made on it and what became of an access outside a row.     *)

\* TableCell(): a cell holding the default value, NaN
TableCell == "NaN"

\* a table after construction
NewTable ==
    [m_table |-> << >>, fault |-> "none", op |-> "Table", index |-> 0, name |-> << >>]

\* size_t Table::GetRowCount() const noexcept
GetRowCount(t) == Len(t.m_table)

\* size_t Table::GetColumnCount() const noexcept
GetColumnCount(t) == IF GetRowCount(t) = 0 THEN 0 ELSE Len(t.m_table[1])

\* std::clamp<size_t>(v, lo, hi)
Clamp(v, lo, hi) == IF v < lo THEN lo ELSE IF hi < v THEN hi ELSE v

\* void Table::SetTableSize(const size_t rows, const size_t cols)
SetTableSize(t, rows, cols) ==
    [t EXCEPT !.m_table =
        [r \in 1..rows |->
            [c \in 1..cols |->
                IF r <= Len(t.m_table) /\ c <= Len(t.m_table[r])
                THEN t.m_table[r][c] ELSE TableCell]]]

\* void Table::ClearTable() noexcept
ClearTable(t) == [t EXCEPT !.m_table = << >>]

\* InsertRow putting in a row that holds a single cell
InsertRowOfOneCell(t, rowIndex, rowName) ==
    IF GetColumnCount(t) = 0 THEN t
    ELSE [t EXCEPT !.m_table =
             InsertAt(@, Clamp(rowIndex, 0, GetRowCount(t)) + 1,
                      << IF Len(rowName) > 0 THEN rowName[1] ELSE TableCell >>)]

\* void Table::InsertRow(const size_t rowIndex, std::optional<wxString> rowName)
InsertRow(t, rowIndex, rowName) ==
    IF GetColumnCount(t) = 0 THEN t
    ELSE LET row == [c \in 1..GetColumnCount(t) |->
                        IF c = 1 /\ Len(rowName) > 0 THEN rowName[1] ELSE TableCell]
         IN [t EXCEPT !.m_table =
                InsertAt(@, Clamp(rowIndex, 0, GetRowCount(t)) + 1, row)]

\* the loop of InsertColumn: an empty cell put into every row, at colIndex or
\* at the end of the row if colIndex lies beyond it
InsertCells(rows, colIndex) ==
    [r \in 1..Len(rows) |->
        InsertAt(rows[r], Clamp(colIndex, 0, Len(rows[r])) + 1, TableCell)]

\* void Table::InsertColumn(const size_t colIndex, std::optional<wxString> colName):
\* the tables the call can leave.  m_table[0][colIndex] is not clamped; when
\* colIndex lies beyond the row the write is outside the vector, which is
\* undefined: the name goes to memory that is no cell of the table, or the
\* program is stopped.
InsertColumn(t, colIndex, colName) ==
    LET inserted == InsertCells(t.m_table, colIndex)
    IN IF GetColumnCount(t) = 0 THEN {t}
       ELSE IF Len(colName) = 0 THEN {[t EXCEPT !.m_table = inserted]}
       ELSE IF colIndex < Len(inserted[1])
       THEN {[t EXCEPT !.m_table = [inserted EXCEPT ![1][colIndex + 1] = colName[1]]]}
       ELSE {[t EXCEPT !.m_table = inserted, !.fault = f] :
                f \in {"write outside the row", "stopped"}}

---------------------------------------------------------------------------
(* The state machine *)

VARIABLES
    axis,        \* the Axis object
    bar,         \* a bar of a bar chart
    table,       \* a table
    hung,        \* a call entered a loop that never ends
    positioned,  \* SetPoints has run since the axis points last changed
    lastCall     \* what the last call was, if it was a SetRange or a ReverseScale

vars == << axis, bar, table, hung, positioned, lastCall >>

\* the axis a call record holds when it has none to remember
NoAxis == NewAxis("BottomXAxis")

\* the last call was neither a SetRange nor a ReverseScale
OtherCall ==
    [op |-> "other", start |-> 0, end |-> 0, precision |-> 0, interval |-> 0,
     displayInterval |-> 0, includeExtraInterval |-> FALSE, before |-> NoAxis,
     result |-> 0, stored |-> << >>, level |-> "", dc |-> << >>,
     boxes |-> << >>, granted |-> << >>]

\* the last call was a SetRange given an invalid range: a numeric range whose
\* end lies below its start (clamped to at most 0 if the axis starts at zero),
\* or an invalid date
RefusedCall == [OtherCall EXCEPT !.op = "refused"]

\* the last call was a SetRange with this valid numeric range
RangeCall(op, start, end, precision, interval, displayInterval, includeExtraInterval) ==
    [OtherCall EXCEPT !.op = op, !.start = start, !.end = end,
                      !.precision = precision, !.interval = interval,
                      !.displayInterval = displayInterval,
                      !.includeExtraInterval = includeExtraInterval]

\* the last call was ReverseScale(true) on an axis that was not reversed;
\* `before` is the axis as that call found it
ReversedCall(before) == [OtherCall EXCEPT !.op = "ReverseScale(true)", !.before = before]

\* the last two calls were ReverseScale(true) on an axis that was not
\* reversed and then ReverseScale(false)
RestoredCall(before) ==
    [OtherCall EXCEPT !.op = "ReverseScale(true), ReverseScale(false)",
                      !.before = before]

\* the last call was CalcBestScalingToFitLabels, which returned `result` and
\* passed the scalings in `stored` to SetAxisLabelScaling
ScalingCall(result, stored) ==
    [OtherCall EXCEPT !.op = "CalcBestScalingToFitLabels", !.result = result,
                      !.stored = stored]

\* the last call was SetPoints with endpoints at the pixels c1 and c2 along
\* the axis line, in this order
PointsCall(c1, c2) == [OtherCall EXCEPT !.op = "SetPoints", !.start = c1, !.end = c2]

\* the last call was GetWidestTextLabel or GetTallestTextLabel with this
\* device context
LabelCall(op, dc) == [OtherCall EXCEPT !.op = op, !.dc = << dc >>]

\* the last call was Reset(level)
ResetCall(level) == [OtherCall EXCEPT !.op = "Reset", !.level = level]

\* the last call was SetBoundingBox; `granted` holds its rectangle if the
\* axis was not free-floating
SetBoxCall(granted) == [OtherCall EXCEPT !.op = "SetBoundingBox", !.granted = granted]

\* the last call was GetBoundingBox with the device context dc; `boxes`
\* holds the rectangle it returned and then the one the call before it
\* returned if that was a GetBoundingBox with the same device context, and
\* `granted` the rectangle of the SetBoundingBox that only GetBoundingBox
\* calls followed
GetBoxCall(dc, result, previous, granted) ==
    [OtherCall EXCEPT !.op = "GetBoundingBox", !.dc = << dc >>,
                      !.boxes = << result >> \o previous, !.granted = granted]

\* whether the axis takes a numeric range to be invalid
IsInvalidRange(a, start, end) ==
    end < (IF a.m_startAtZero THEN Min(0, start) ELSE start)

\* the values and pixels of the axis points
Placement(a) ==
    [i \in 1..Len(a.m_axisLabels) |->
        << a.m_axisLabels[i].value, a.m_axisLabels[i].physicalCoordinate >>]

\* a call other than SetPoints returned with the axis in state `next`
Returns(next) ==
    /\ axis' = next
    /\ hung' = FALSE
    /\ positioned' = (positioned /\ Placement(next) = Placement(axis))
    /\ UNCHANGED << bar, table >>

\* a call that is no SetRange returned with the axis in state `next`
Done(next) ==
    /\ Returns(next)
    /\ lastCall' = OtherCall

\* a call never returns
Hangs ==
    /\ hung' = TRUE
    /\ UNCHANGED << axis, bar, table, positioned, lastCall >>

Init ==
    /\ axis \in {NewAxis(t) : t \in AxisTypes}
    /\ bar = NewBar
    /\ table = NewTable
    /\ hung = FALSE
    /\ positioned = FALSE
    /\ lastCall = OtherCall

DoSetRange(ranges, precisions, intervals, displayIntervals) ==
    \E r \in ranges, precision \in precisions, interval \in intervals,
       displayInterval \in displayIntervals :
        /\ ~hung
        /\ Returns(SetRange(axis, r[1], r[2], precision, interval, displayInterval))
        /\ lastCall' = IF IsInvalidRange(axis, r[1], r[2]) THEN RefusedCall
                       ELSE RangeCall("SetRange", r[1], r[2], precision, interval,
                                      displayInterval, FALSE)

DoSetRangeAuto(ranges, precisions, extras) ==
    \E r \in ranges, precision \in precisions, includeExtraInterval \in extras :
        /\ ~hung
        /\ Returns(SetRangeAuto(axis, r[1], r[2], precision, includeExtraInterval))
        /\ lastCall' = IF IsInvalidRange(axis, r[1], r[2]) THEN RefusedCall
                       ELSE RangeCall("SetRangeAuto", r[1], r[2], precision, 0, 1,
                                      includeExtraInterval)

DoSetRangeDates(startDates, endDates, displayIntervals, nows, firstWeekDays) ==
    \E startDate \in startDates, endDate \in endDates,
       displayInterval \in displayIntervals, now \in nows, firstWeekDay \in firstWeekDays :
        /\ ~hung
        /\ Returns(SetRangeDates(axis, startDate, endDate, displayInterval, now,
                                 firstWeekDay))
        /\ lastCall' = IF ~startDate.valid \/ ~endDate.valid THEN RefusedCall
                       ELSE OtherCall

\* a device context whose font has characters 2 pixels wide and lines 3
\* pixels high
SmallFont == [charWidth |-> 2, lineHeight |-> 3]

\* one whose font has characters and lines 30 pixels wide and high
LargeFont == [charWidth |-> 30, lineHeight |-> 30]

\* the endpoint at pixel c along the axis line (and 0 across it)
EndPoint(a, c) == IF IsVertical(a) THEN << 0, c >> ELSE << c, 0 >>

DoSetPoints(coords, dcs) ==
    \E c1 \in coords, c2 \in coords, dc \in dcs :
        /\ ~hung
        /\ IF TickLoopTerminates(axis)
           THEN /\ axis' = SetPoints(axis, EndPoint(axis, c1), EndPoint(axis, c2),
                                    dc)
                /\ hung' = FALSE
                /\ positioned' = TRUE
                /\ lastCall' = PointsCall(c1, c2)
                /\ UNCHANGED << bar, table >>
           ELSE Hangs

DoReverseScale ==
    \E reverse \in BOOLEAN :
        /\ ~hung
        /\ Returns(ReverseScale(axis, reverse))
        /\ lastCall' = IF reverse /\ ~IsReversed(axis) THEN ReversedCall(axis)
                       ELSE IF ~reverse /\ lastCall.op = "ReverseScale(true)"
                       THEN RestoredCall(lastCall.before)
                       ELSE OtherCall

DoAddUnevenAxisPoint(values, labels) ==
    \E value \in values, label \in labels :
        /\ ~hung
        /\ Done(AddUnevenAxisPoint(axis, value, TextLabel(label)))

DoAdjustRangeToLabels ==
    /\ ~hung
    /\ Done(AdjustRangeToLabels(axis))

DoSetCustomLabel(values, labels) ==
    \E value \in values, label \in labels :
        /\ ~hung
        /\ Done(SetCustomLabel(axis, value, TextLabel(label)))

DoSetDisplayInterval(intervals, offsets) ==
    \E interval \in intervals, offset \in offsets :
        /\ ~hung
        /\ IF interval = 0 /\ offset < Len(axis.m_axisLabels)
           THEN Hangs
           ELSE Done(SetDisplayInterval(axis, interval, offset))

DoReset ==
    \E level \in AxisResetLevels :
        /\ ~hung
        /\ Returns(Reset(axis, level))
        /\ lastCall' = ResetCall(level)

DoCopySettings(others) ==
    \E that \in others :
        /\ ~hung
        /\ Done(CopySettings(axis, that))

DoStartAtZero ==
    \E startAtZero \in BOOLEAN :
        /\ ~hung
        /\ Done(StartAtZero(axis, startAtZero))

DoSetScaling(scalings) ==
    \E scaling \in scalings :
        /\ ~hung
        /\ Done(SetScaling(axis, scaling))

DoSetAxisLabelScaling(scalings) ==
    \E scaling \in scalings :
        /\ ~hung
        /\ Done(SetAxisLabelScaling(axis, scaling))

DoSetAxisLabelOrientation ==
    \E orient \in AxisLabelOrientations :
        /\ ~hung
        /\ Done(SetAxisLabelOrientation(axis, orient))

DoShowOuterLabels ==
    \E display \in BOOLEAN :
        /\ ~hung
        /\ Done(ShowOuterLabels(axis, display))

DoStackLabels ==
    \E stack \in BOOLEAN :
        /\ ~hung
        /\ Done(StackLabels(axis, stack))

DoEnableAutoStacking ==
    \E enable \in BOOLEAN :
        /\ ~hung
        /\ Done(EnableAutoStacking(axis, enable))

DoCalcBestScalingToFitLabels(dcs) ==
    \E dc \in dcs :
        LET call == CalcBestScalingToFitLabels(axis, dc)
        IN /\ ~hung
           /\ Returns(call.axis)
           /\ lastCall' = ScalingCall(call.result, call.stored)

DoSetLabelDisplay(displays) ==
    \E display \in displays :
        /\ ~hung
        /\ Done(SetLabelDisplay(axis, display))

DoAddBracket(brackets) ==
    \E bracket \in brackets :
        /\ ~hung
        /\ Len(axis.m_brackets) < MaxBrackets
        /\ Done(AddBracket(axis, bracket))

DoSetText(labels, texts) ==
    \E label \in labels, text \in texts :
        /\ ~hung
        /\ Done(SetText(axis, label, TextLabel(text)))

DoSetPerpendicularLabelAxisAlignment(alignments) ==
    \E alignment \in alignments :
        /\ ~hung
        /\ Done(SetPerpendicularLabelAxisAlignment(axis, alignment))

DoSetOutlineSize(sizes) ==
    \E sz \in sizes :
        /\ ~hung
        /\ Done(SetOutlineSize(axis, sz))

DoSetAnchoring(placements) ==
    \E placement \in placements :
        /\ ~hung
        /\ Done(SetAnchoring(axis, placement))

DoSetFreeFloating ==
    \E freeFloat \in BOOLEAN :
        /\ ~hung
        /\ Done(SetFreeFloating(axis, freeFloat))

\* a rectangle with its top left corner at the origin
RectOfSize(size) == [x |-> 0, y |-> 0, width |-> size[1], height |-> size[2]]

DoSetBoundingBox(sizes, dcs, parentScalings) ==
    \E size \in sizes, dc \in dcs, parentScaling \in parentScalings :
        /\ ~hung
        /\ \A i \in 1..2 : \A j \in 1..2 : Abs(axis.m_points[i][j]) <= MaxCoordinate
        /\ IF axis.m_freeFloating
           THEN /\ Returns(axis)
                /\ lastCall' = SetBoxCall(<< >>)
           ELSE IF TickLoopTerminates(axis)
           THEN /\ axis' = SetBoundingBox(axis, RectOfSize(size), dc, parentScaling)
                /\ hung' = FALSE
                /\ positioned' = TRUE
                /\ lastCall' = [SetBoxCall(<< RectOfSize(size) >>) EXCEPT !.dc = << dc >>]
                /\ UNCHANGED << bar, table >>
           ELSE Hangs

DoGetBoundingBox(dcs) ==
    \E dc \in dcs :
        LET box == GetBoundingBox(axis, dc)
            following == lastCall.op \in {"SetBoundingBox", "GetBoundingBox"}
        IN /\ ~hung
           /\ Returns(box.axis)
           /\ lastCall' =
                  GetBoxCall(dc, box.rect,
                             IF lastCall.op = "GetBoundingBox" /\ lastCall.dc = << dc >>
                             THEN << lastCall.boxes[1] >> ELSE << >>,
                             IF following THEN lastCall.granted ELSE << >>)

DoGetWidestTextLabel(dcs) ==
    \E dc \in dcs :
        /\ ~hung
        /\ Returns([axis EXCEPT !.m_widestLabel = GetWidestTextLabel(axis, dc)])
        /\ lastCall' = LabelCall("GetWidestTextLabel", dc)

DoGetTallestTextLabel(dcs) ==
    \E dc \in dcs :
        /\ ~hung
        /\ Returns([axis EXCEPT !.m_tallestLabel = GetTallestTextLabel(axis, dc)])
        /\ lastCall' = LabelCall("GetTallestTextLabel", dc)

\* a call on the bar returned with the bar in state `next`
BarDone(next) ==
    /\ bar' = next
    /\ UNCHANGED << axis, table, hung, positioned, lastCall >>

DoAddBlock(lengths) ==
    \E len \in lengths :
        /\ Len(bar.m_blocks) < MaxBlocks
        /\ BarDone(AddBlock(bar, BarBlock(len)))

DoClearBlocks == BarDone(ClearBlocks(bar))

\* a call on the table, which the program had not stopped in, left it in
\* one of the states `outcomes`
TableDone(outcomes, op, index, name) ==
    /\ table.fault # "stopped"
    /\ table' \in {[t EXCEPT !.op = op, !.index = index, !.name = name] : t \in outcomes}
    /\ UNCHANGED << axis, bar, hung, positioned, lastCall >>

DoSetTableSize(sizes) ==
    \E rows \in sizes, cols \in sizes :
        TableDone({SetTableSize(table, rows, cols)}, "SetTableSize", 0, << >>)

DoClearTable == TableDone({ClearTable(table)}, "ClearTable", 0, << >>)

DoInsertRow(indices, names) ==
    \E rowIndex \in indices, rowName \in names :
        /\ GetRowCount(table) < MaxRows
        /\ TableDone({InsertRow(table, rowIndex, rowName)}, "InsertRow", rowIndex, rowName)

DoInsertColumn(indices, names) ==
    \E colIndex \in indices, colName \in names :
        /\ GetColumnCount(table) < MaxColumns
        /\ TableDone(InsertColumn(table, colIndex, colName), "InsertColumn", colIndex,
                     colName)

---------------------------------------------------------------------------
(* The life of an axis: every mutator of the range and of the axis points *)

\* proper, empty (start = end) and inverted ranges
ExplicitRanges == {<< 0, 2 * Unit >>, << Unit, Unit >>, << 2 * Unit, 0 >>}

\* positive, zero and negative intervals
Intervals == {Unit, 0, -Unit}

\* a fractional range and an inverted range
FewAutoRanges == {<< 0, 6 >>, << Unit, 0 >>}

\* 10 and 17 February, and a date that is not valid
StartDates == {InvalidDate, Date(40)}

EndDates == {InvalidDate, Date(47)}

\* the axis CopySettings copies from: another axis after SetRange,
\* ReverseScale, SetCustomLabel and SetPoints
ThatAxes ==
    {SetPoints(SetCustomLabel(ReverseScale(SetRange(NewAxis("LeftYAxis"),
                                                    0, 2 * Unit, 0, Unit, 2),
                                           TRUE),
                              0, TextLabel("FY")),
               << 0, 0 >>, << 0, MaxPixel >>, SmallFont)}

\* none of these calls reads the side the axis is on
InitLife == Init /\ axis.m_type = "BottomXAxis"

Next ==
    \/ DoSetRange(ExplicitRanges, {0}, Intervals, {1})
    \/ DoSetRangeAuto(FewAutoRanges, {0}, {FALSE})
    \/ DoSetRangeDates(StartDates, EndDates, {"Weekly"}, {42}, {0})
    \/ DoReverseScale
    \/ DoAddUnevenAxisPoint({Unit + 5}, {"Q1"})
    \/ DoAdjustRangeToLabels
    \/ DoSetCustomLabel({0}, {"Q1"})
    \/ DoSetDisplayInterval({0, MaxDisplayInterval}, {0})
    \/ DoReset
    \/ DoCopySettings(ThatAxes)
    \/ DoStartAtZero

Spec == InitLife /\ [][Next]_vars

---------------------------------------------------------------------------
(* Properties of the life of an axis (specification Spec) *)

\* C4: the stored range satisfies rangeEnd >= rangeStart in every reachable
\* state; reversal never inverts the stored range.
C4_RangeNeverInverted == axis.m_rangeEnd >= axis.m_rangeStart

\* C5: in every reachable state the axis points are strictly ordered by
\* value, ascending when IsReversed() is false and descending when it is true.
C5_PointsOrderedAsReversedSays ==
    \A i \in 1..(Len(axis.m_axisLabels) - 1) :
        IF IsReversed(axis)
        THEN axis.m_axisLabels[i].value > axis.m_axisLabels[i + 1].value
        ELSE axis.m_axisLabels[i].value < axis.m_axisLabels[i + 1].value

\* a reversed axis whose points SetRange generated and to which
\* AddUnevenAxisPoint added a point between two of them
C5_Witness ==
    /\ IsReversed(axis)
    /\ PointValues(axis) = << 2 * Unit, Unit + 5, Unit, 0 >>

\* what C6 says an invalid range leaves alone
RangeSettings(a) ==
    << a.m_rangeStart, a.m_rangeEnd, a.m_axisLabels, a.m_displayPrecision,
       a.m_interval, a.m_displayInterval >>

RemovesCustomLabel ==
    \E c \in axis.m_customAxisLabels :
        \A d \in axis'.m_customAxisLabels : d.value # c.value

\* the step is a numeric SetRange call, of either overload
IsNumericSetRange ==
    \/ lastCall'.op \in {"SetRange", "SetRangeAuto"}
    \/ \E r \in ExplicitRanges, interval \in Intervals :
          /\ lastCall' = RefusedCall
          /\ axis' = SetRange(axis, r[1], r[2], 0, interval, 1)

\* the step is a Reset of the range and label values, or of all settings
IsLabelReset ==
    \E level \in {"RangeAndLabelValues", "AllSettings"} : axis' = Reset(axis, level)

\* C10 as claimed: a numeric SetRange leaves the custom-label map unchanged,
\* and custom labels are removed only by Reset(RangeAndLabelValues) or
\* Reset(AllSettings).
C10_LabelsRemovedOnlyByReset ==
    [][/\ IsNumericSetRange => axis'.m_customAxisLabels = axis.m_customAxisLabels
       /\ RemovesCustomLabel => IsLabelReset]_vars

\* C10 as amended: a numeric SetRange leaves the custom-label map unchanged,
\* and custom labels are removed only by Reset(RangeAndLabelValues),
\* Reset(AllSettings) or CopySettings, which replaces the map by that of the
\* other axis.
C10_LabelsRemovedOnlyByResetOrCopy ==
    [][/\ IsNumericSetRange => axis'.m_customAxisLabels = axis.m_customAxisLabels
       /\ RemovesCustomLabel =>
             \/ IsLabelReset
             \/ \E that \in ThatAxes : axis' = CopySettings(axis, that)]_vars

\* custom labels that outlived a numeric SetRange: the points are freshly
\* generated for the range 0..2 and the labels set by the date range remain
C10_Witness ==
    /\ lastCall.op = "SetRange"
    /\ PointValues(axis) = << 0, Unit, 2 * Unit >>
    /\ \A i \in 1..3 : axis.m_axisLabels[i].physicalCoordinate = UnsetCoordinate
    /\ \E c \in axis.m_customAxisLabels : c.value = 7 * Unit

---------------------------------------------------------------------------
(* Range and tick generation: SetRange over many ranges *)

\* fractional ranges, small ranges, ranges of 20 and more with a whole and a
\* fractional size, ranges of 100 and more, an empty and an inverted range
AutoRanges ==
    {<< 0, 6 >>, << 0, Unit >>, << 0, 7 * Unit >>, << 0, 47 * Unit >>,
     << Unit, 23 * Unit + 5 >>, << 0, 45 * Unit >>, << 0, 100 * Unit >>,
     << -Unit, 150 * Unit >>, << 5, 5 >>, << Unit, 0 >>}

ManyRanges ==
    {<< -Unit, Unit >>, << Unit, Unit >>, << 2 * Unit, 0 >>, << Unit, 4 * Unit >>}

ManyIntervals == {Unit \div 2, 2 * Unit, 0, -Unit}

\* SetRange reads nothing that depends on the side the axis is on
InitRange == Init /\ axis.m_type = "BottomXAxis"

NextRange ==
    \/ DoSetRange(ManyRanges, {0}, ManyIntervals, 0..MaxDisplayInterval)
    \/ DoSetRangeAuto(AutoRanges, {0, 1}, BOOLEAN)
    \/ DoReverseScale
    \/ DoStartAtZero

SpecRange == InitRange /\ [][NextRange]_vars

---------------------------------------------------------------------------
(* Properties of range and tick generation (specification SpecRange) *)

\* the start SetRange works with: min(0, start) when the axis starts at zero
\* (SetRange leaves the startAtZero setting as it is)
EffectiveStart(start) == IF axis.m_startAtZero THEN Min(0, start) ELSE start

\* C7: for every start <= end, SetRange with an automatic interval leaves
\* axis points whose largest value is not less than the requested end.
C7_AutoRangeCoversRequestedEnd ==
    lastCall.op = "SetRangeAuto" =>
        /\ Len(axis.m_axisLabels) > 0
        /\ MaxPointValue(axis) >= lastCall.end

\* SetRange(0, 47) came to points from 0 to 50
C7_Witness ==
    /\ lastCall.op = "SetRangeAuto"
    /\ lastCall.start = 0
    /\ lastCall.end = 47 * Unit
    /\ ~lastCall.includeExtraInterval
    /\ MaxPointValue(axis) = 50 * Unit

\* C8: with an automatic interval and no extra interval asked for, a range
\* of size <= 1 gets the interval 0.2 and a display precision of at least 1;
\* a range of size 20 <= size < 100 gets the interval 5 and ends at the start
\* plus the size rounded up to the next multiple of 5.
C8_AutoIntervalBySize ==
    (lastCall.op = "SetRangeAuto" /\ ~lastCall.includeExtraInterval) =>
        LET start == EffectiveStart(lastCall.start)
            size == lastCall.end - start
        IN /\ size <= Unit =>
                /\ axis.m_interval = Unit \div 5
                /\ axis.m_displayPrecision >= 1
           /\ (size >= 20 * Unit /\ size < 100 * Unit) =>
                /\ axis.m_interval = 5 * Unit
                /\ Len(axis.m_axisLabels) > 0
                /\ MaxPointValue(axis) = start + CeilDiv(size, 5 * Unit) * (5 * Unit)

\* the values and shown flags of the axis points
ValuesAndShown(a) ==
    [i \in 1..Len(a.m_axisLabels) |->
        << a.m_axisLabels[i].value, a.m_axisLabels[i].shown >>]

\* the points C9 describes: from start in steps of the interval up to the
\* first value >= end, or walked downward from end likewise when reversed;
\* the k-th of them (k from 0) shown exactly when displayInterval divides k
SteppedPoints(reversed, start, end, interval, displayInterval) ==
    [i \in 1..(Max(0, CeilDiv(end - start, interval)) + 1) |->
        << IF reversed THEN end - (i - 1) * interval ELSE start + (i - 1) * interval,
           (i - 1) % displayInterval = 0 >>]

\* C9 as claimed: after SetRange(start, end, precision, interval,
\* displayInterval) with interval > 0 and displayInterval >= 1 the axis
\* points are start, start+interval, ... up to the first value >= end, and
\* the k-th is shown exactly when k is a multiple of displayInterval.
C9_PointsStepFromStart ==
    (lastCall.op = "SetRange" /\ lastCall.interval > 0 /\ lastCall.displayInterval >= 1) =>
        ValuesAndShown(axis) =
            SteppedPoints(IsReversed(axis), lastCall.start, lastCall.end,
                          lastCall.interval, lastCall.displayInterval)

\* C9 as amended: the same, for a call whose end lies above s, the start
\* after the startAtZero clamp, and with the points stepping from s.
C9_PointsStepFromClampedStart ==
    (/\ lastCall.op = "SetRange"
     /\ lastCall.interval > 0
     /\ lastCall.displayInterval >= 1
     /\ EffectiveStart(lastCall.start) < lastCall.end) =>
        ValuesAndShown(axis) =
            SteppedPoints(IsReversed(axis), EffectiveStart(lastCall.start), lastCall.end,
                          lastCall.interval, lastCall.displayInterval)

\* SetRange(1, 4, 0, 0.5, MaxDisplayInterval) on a reversed axis that starts
\* at zero came to the points 4, 3.5, ..., 0
C9_Witness ==
    /\ lastCall = RangeCall("SetRange", Unit, 4 * Unit, 0, Unit \div 2,
                            MaxDisplayInterval, FALSE)
    /\ IsReversed(axis)
    /\ axis.m_startAtZero
    /\ MinPointValue(axis) = 0
    /\ MaxPointValue(axis) = 4 * Unit

---------------------------------------------------------------------------
(* Coordinate mapping: positioned and not yet positioned axes *)

\* pixel positions of axis endpoints
PixelCoords == {-3, 0, MaxPixel}

NextMap ==
    \/ DoSetRange({<< 0, 2 * Unit >>, << -Unit, Unit >>}, {0}, {Unit, Unit \div 2}, {1})
    \/ DoSetPoints(PixelCoords, {SmallFont})
    \/ DoReverseScale
    \/ DoAddUnevenAxisPoint({Unit + 5}, {"Q1"})

SpecMap == Init /\ [][NextMap]_vars

---------------------------------------------------------------------------
(* Properties of the coordinate mapping (specification SpecMap) *)

\* the values and the pixels the mappings are probed with
ProbeValues == (-2 * Unit)..(3 * Unit)

ProbePixels == (-5)..(MaxPixel + 3)

\* the pixel length of the axis line
AxisLength == Abs(Along(axis, axis.m_points[2]) - Along(axis, axis.m_points[1]))

\* mapping the value of the i-th axis point to a pixel and back succeeds and
\* gives exactly that value
RoundTrips(i) ==
    LET c == GetPhysicalCoordinate(axis, axis.m_axisLabels[i].value)
        v == GetValueFromPhysicalCoordinate(axis, c.result)
    IN /\ c.ok
       /\ v.ok
       /\ v.value.n = axis.m_axisLabels[i].value * v.value.d

InRangeValues ==
    {v \in ProbeValues : MinPointValue(axis) <= v /\ v <= MaxPointValue(axis)}

\* C2: after SetPoints, for in-range values v1 < v2 the pixel of v1 is <= that
\* of v2 on a non-reversed horizontal axis and >= it on a non-reversed
\* vertical axis; on a reversed axis both inequalities are flipped.
C2_MappingIsMonotonic ==
    (positioned /\ Len(axis.m_axisLabels) > 0) =>
        LET pixel == [v \in InRangeValues |-> GetPhysicalCoordinate(axis, v)]
        IN \A v1 \in InRangeValues, v2 \in InRangeValues :
            v1 < v2 =>
                /\ pixel[v1].ok
                /\ pixel[v2].ok
                /\ IF IsHorizontal(axis) = ~IsReversed(axis)
                   THEN pixel[v1].result <= pixel[v2].result
                   ELSE pixel[v1].result >= pixel[v2].result

\* a reversed vertical axis laid out over more pixels than it has points,
\* with values between its points mapped to pixels between theirs
C2_Witness ==
    /\ positioned
    /\ IsVertical(axis)
    /\ IsReversed(axis)
    /\ Len(axis.m_axisLabels) = 5
    /\ AxisLength = MaxPixel
    /\ GetPhysicalCoordinate(axis, 2).result < GetPhysicalCoordinate(axis, Unit + 2).result

\* the smallest and the largest of the first and last axis points' pixels
SegmentLow ==
    Min(axis.m_axisLabels[1].physicalCoordinate,
        axis.m_axisLabels[Len(axis.m_axisLabels)].physicalCoordinate)

SegmentHigh ==
    Max(axis.m_axisLabels[1].physicalCoordinate,
        axis.m_axisLabels[Len(axis.m_axisLabels)].physicalCoordinate)

\* GetPhysicalCoordinate fails for every value below the smallest or above
\* the largest axis point value
NoValueExtrapolated ==
    \A v \in ProbeValues :
        (Len(axis.m_axisLabels) = 0 \/ v < MinPointValue(axis) \/ v > MaxPointValue(axis))
            => ~GetPhysicalCoordinate(axis, v).ok

\* GetValueFromPhysicalCoordinate fails for every pixel outside the segment
\* spanned by the first and last axis points' pixels
NoPixelExtrapolated ==
    \A c \in ProbePixels :
        (Len(axis.m_axisLabels) = 0 \/ c < SegmentLow \/ c > SegmentHigh)
            => ~GetValueFromPhysicalCoordinate(axis, c).ok

\* C3 as claimed: the mappings never extrapolate, in any state.
C3_NeverExtrapolates == NoValueExtrapolated /\ NoPixelExtrapolated

\* C3 as amended: GetPhysicalCoordinate never extrapolates;
\* GetValueFromPhysicalCoordinate does not once SetPoints has positioned the
\* points the axis now has, nor when the axis has no points.
C3_NoExtrapolationOncePositioned ==
    /\ NoValueExtrapolated
    /\ (positioned \/ Len(axis.m_axisLabels) = 0) => NoPixelExtrapolated

\* a positioned axis with probe values and probe pixels beyond both its ends
C3_Witness ==
    /\ positioned
    /\ PointValues(axis) = << -Unit, 0, Unit, Unit + 5 >>
    /\ SegmentLow = 0
    /\ SegmentHigh = MaxPixel

\* C12: ReverseScale(true) followed immediately by ReverseScale(false) on an
\* axis that was not reversed restores the order of the axis points, and
\* GetPhysicalCoordinate then gives every value the success flag and pixel it
\* gave before the two calls.
C12_ReverseScaleRoundTrip ==
    lastCall.op = "ReverseScale(true), ReverseScale(false)" =>
        /\ axis.m_axisLabels = lastCall.before.m_axisLabels
        /\ \A v \in ProbeValues :
                GetPhysicalCoordinate(axis, v) = GetPhysicalCoordinate(lastCall.before, v)

\* the two calls were made on an axis of several points that SetPoints had
\* spread over the pixels 0, 4, 8 and 12
C12_Witness ==
    /\ lastCall.op = "ReverseScale(true), ReverseScale(false)"
    /\ IsHorizontal(axis)
    /\ Placement(axis) = << << 0, 0 >>, << Unit, 4 >>, << Unit + 5, 8 >>,
                            << 2 * Unit, MaxPixel >> >>
    /\ GetPhysicalCoordinate(axis, Unit + 2) = [ok |-> TRUE, result |-> 5]

\* C18: the first stored endpoint is never further along the axis line than
\* the second: point1.y <= point2.y on a vertical axis and point1.x <=
\* point2.x on a horizontal one, after SetPoints in either argument order
\* and in every state from then on (a newly constructed axis has both
\* endpoints at the same place)
C18_EndpointsOrdered ==
    Along(axis, axis.m_points[1]) <= Along(axis, axis.m_points[2])

\* SetPoints was just given the further endpoint first, on a vertical axis
C18_Witness ==
    /\ lastCall.op = "SetPoints"
    /\ IsVertical(axis)
    /\ lastCall.start = MaxPixel
    /\ lastCall.end = 0
    /\ axis.m_points = << << 0, 0 >>, << 0, MaxPixel >> >>

---------------------------------------------------------------------------
(* The labels of an axis: custom labels, the label display mode and the    *)
(* points they apply to (specification SpecLabel)                           *)

\* a custom label with text and one without
LabelTexts == {"Q1", ""}

NextLabel ==
    \/ DoSetRange({<< 0, 2 * Unit >>}, {0}, {Unit}, {1, MaxDisplayInterval})
    \/ DoSetRangeDates({Date(40)}, {Date(47)}, {"Weekly"}, {42}, {0})
    \/ DoSetCustomLabel({0, Unit}, LabelTexts)
    \/ DoSetLabelDisplay(AxisLabelDisplays)
    \/ DoAddUnevenAxisPoint({Unit + 5}, {"Q1"})
    \/ DoReset

SpecLabel == InitLife /\ [][NextLabel]_vars

\* the axis points that have / do not have a custom label at their value
HasCustomLabel(pt) == \E c \in axis.m_customAxisLabels : c.value = pt.value

CustomText(pt) == (CHOOSE c \in axis.m_customAxisLabels : c.value = pt.value).label

AxisPointSet == {axis.m_axisLabels[i] : i \in 1..Len(axis.m_axisLabels)}

\* C11: while labels are shown, GetDisplayableValue of a point that has a
\* custom label L returns L's text (L's text, four spaces and the numeric
\* text in DisplayCustomLabelsAndValues mode), and of a point without a
\* custom label returns exactly the point's formatted numeric text.
C11_CustomLabelPrecedence ==
    IsShowingLabels(axis) =>
        \A pt \in AxisPointSet :
            GetDisplayableValue(axis, pt) =
                IF ~HasCustomLabel(pt) THEN << pt.displayValue >>
                ELSE IF axis.m_labelDisplay = "DisplayCustomLabelsAndValues"
                THEN << CustomText(pt), TextLabel("    "), pt.displayValue >>
                ELSE << CustomText(pt) >>

\* C11 (amended): while labels are shown, a point with a custom label L whose
\* text is not empty displays L's text (L's text, four spaces and the numeric
\* text in DisplayCustomLabelsAndValues mode); a point without a custom label
\* displays exactly its numeric text in DisplayCustomLabelsOrValues mode,
\* four spaces then its numeric text in DisplayCustomLabelsAndValues mode,
\* and a blank label in DisplayOnlyCustomLabels mode.
C11_CustomLabelPrecedenceByMode ==
    IsShowingLabels(axis) =>
        \A pt \in AxisPointSet :
            /\ (HasCustomLabel(pt) /\ ~IsEmptyText(CustomText(pt))) =>
                    GetDisplayableValue(axis, pt) =
                        IF axis.m_labelDisplay = "DisplayCustomLabelsAndValues"
                        THEN << CustomText(pt), TextLabel("    "), pt.displayValue >>
                        ELSE << CustomText(pt) >>
            /\ ~HasCustomLabel(pt) =>
                    GetDisplayableValue(axis, pt) =
                        CASE axis.m_labelDisplay = "DisplayCustomLabelsOrValues" ->
                                << pt.displayValue >>
                          [] axis.m_labelDisplay = "DisplayCustomLabelsAndValues" ->
                                << TextLabel("    "), pt.displayValue >>
                          [] axis.m_labelDisplay = "DisplayOnlyCustomLabels" -> << >>

\* SetCustomLabel(1.0, "Q1") on an axis with points 0, 1, 2 in the combined
\* display mode: one point has the custom label, two have none
C11_Witness ==
    /\ axis.m_labelDisplay = "DisplayCustomLabelsAndValues"
    /\ PointValues(axis) = << 0, Unit, 2 * Unit >>
    /\ axis.m_customAxisLabels = {[value |-> Unit, label |-> TextLabel("Q1")]}
    /\ GetDisplayableValue(axis, axis.m_axisLabels[2]) =
            << TextLabel("Q1"), TextLabel("    "), FormatNumber(Unit, 0) >>

---------------------------------------------------------------------------
(* Fitting the labels to the axis line: the label scaling (specification   *)
(* SpecFit)                                                                 *)

\* parent scalings of 0.5 and 1.0, label scalings of 1.0 and 1.3
ParentScalings == {Unit \div 2, Unit}

LabelScalings == {Unit, Unit + 3}

\* an axis line of no length and one of 200 pixels
LineCoords == {0, 200}

Fonts == {SmallFont, LargeFont}

InitFit == Init /\ axis.m_type \in {"BottomXAxis", "LeftYAxis"}

NextFit ==
    \/ DoSetRange({<< 0, 9 * Unit >>}, {0}, {Unit}, {1, MaxDisplayInterval})
    \/ DoSetPoints(LineCoords, Fonts)
    \/ DoSetScaling(ParentScalings)
    \/ DoSetAxisLabelScaling(LabelScalings)
    \/ DoSetAxisLabelOrientation
    \/ DoSetLabelDisplay({"DisplayCustomLabelsOrValues", "DisplayOnlyCustomLabels"})
    \/ DoCalcBestScalingToFitLabels(Fonts)

SpecFit == InitFit /\ [][NextFit]_vars

\* C13: CalcBestScalingToFitLabels never returns, and never stores as the
\* axis label scaling, a scale factor below 1.0, whatever the state of the
\* axis (no points, no displayed labels, a parent scaling below 1.0).
C13_ScalingNeverBelowOne ==
    lastCall.op = "CalcBestScalingToFitLabels" =>
        /\ lastCall.result >= Unit
        /\ \A i \in 1..Len(lastCall.stored) : lastCall.stored[i] >= Unit

---------------------------------------------------------------------------
(* Fitting the labels to the axis line: the stacking decision               *)
(* (specification SpecStack)                                                *)

NextStack ==
    \/ DoSetRange({<< 0, 9 * Unit >>}, {0}, {Unit}, {1, MaxDisplayInterval})
    \/ DoSetPoints(LineCoords, {LargeFont})
    \/ DoSetScaling(ParentScalings)
    \/ DoSetAxisLabelOrientation
    \/ DoShowOuterLabels
    \/ DoStackLabels
    \/ DoEnableAutoStacking
    \/ DoSetLabelDisplay({"DisplayCustomLabelsOrValues", "DisplayOnlyCustomLabels"})

SpecStack == InitFit /\ [][NextStack]_vars

\* the axis points that display a label
DisplayedPoints ==
    {i \in 1..Len(axis.m_axisLabels) : IsPointDisplayingLabel(axis, axis.m_axisLabels[i])}

\* the extent of the label of the i-th axis point along the axis line as the
\* device context measures it at the scaling of the axis: its height when
\* the labels are perpendicular to the line, its width otherwise; half of
\* it for the labels at the two ends when outer labels are shown
MeasuredExtent(dc, i) ==
    LET text == GetDisplayableValue(axis, axis.m_axisLabels[i])
        whole == IF axis.m_labelOrientation = "Perpendicular"
                 THEN (dc.lineHeight * axis.m_scaling) \div Unit
                 ELSE (PiecesLength(text) * dc.charWidth * axis.m_scaling) \div Unit
    IN IF axis.m_showOuterLabels /\ i \in {1, Len(axis.m_axisLabels)}
       THEN whole \div 2 ELSE whole

C15_SameBudget ==
    (positioned /\ Len(axis.m_axisLabels) > 0 /\ PlotSize(axis) > 0) =>
        MaxTextSize(axis) = MaxLabelWidth(axis)

---------------------------------------------------------------------------
(* The cache of the widest and the tallest label (specification SpecCache) *)

NextCache ==
    \/ DoSetRange({<< 0, 2 * Unit >>}, {0}, {Unit}, {1})
    \/ DoSetCustomLabel({0}, {"Q1"})
    \/ DoSetDisplayInterval({1, MaxDisplayInterval}, {0})
    \/ DoAddUnevenAxisPoint({Unit + 5}, {"Q1"})
    \/ DoCopySettings(ThatAxes)
    \/ DoReverseScale
    \/ DoSetAxisLabelOrientation
    \/ DoReset
    \/ DoGetWidestTextLabel({SmallFont})
    \/ DoGetTallestTextLabel({SmallFont})

SpecCache == InitFit /\ [][NextCache]_vars

\* C19: the cached widest / tallest label is never stale: whatever SetRange,
\* SetCustomLabel, SetDisplayInterval, AddUnevenAxisPoint, CopySettings,
\* ReverseScale, SetAxisLabelOrientation and Reset calls came before, a
\* GetWidestTextLabel / GetTallestTextLabel call on an axis with points
\* returns the widest / tallest among the labels the axis displays at the
\* time of the call.
C19_CacheNeverStale ==
    Len(axis.m_axisLabels) > 0 =>
        /\ lastCall.op = "GetWidestTextLabel" =>
                axis.m_widestLabel = WidestDisplayedLabel(axis, lastCall.dc[1])
        /\ lastCall.op = "GetTallestTextLabel" =>
                axis.m_tallestLabel = TallestDisplayedLabel(axis, lastCall.dc[1])

---------------------------------------------------------------------------
(* What Reset leaves alone (specification SpecReset) *)

\* the one bracket that is added: over the first half of the range
FirstHalf ==
    [start |-> 0, end |-> Unit, label |-> TextLabel("H1"), scaling |-> Unit,
     orientation |-> "Horizontal"]

NextReset ==
    \/ DoSetRange({<< 0, 2 * Unit >>}, {0}, {Unit}, {1})
    \/ DoSetCustomLabel({0}, {"Q1"})
    \/ DoAddBracket({FirstHalf})
    \/ DoSetText({"m_title", "m_header", "m_footer"}, {"Sales"})
    \/ DoSetPerpendicularLabelAxisAlignment({"CenterOnAxisLine"})
    \/ DoSetOutlineSize({[width |-> 2, height |-> 2]})
    \/ DoReset

SpecReset == InitFit /\ [][NextReset]_vars

\* the state groups of an axis
PointsAndRange(a) ==
    << a.m_axisLabels, a.m_customAxisLabels, a.m_tickMarks, a.m_rangeStart, a.m_rangeEnd >>

TitleHeaderFooter(a) == << a.m_title, a.m_header, a.m_footer >>

CosmeticSettings(a) == << a.m_axisLabelAlignment, a.m_outlineSize >>

\* whether the group is as Reset leaves it
IsCleared(a) ==
    PointsAndRange(a) = << << >>, {}, << >>, 0, 0 >>

IsBlank(a) ==
    \A label \in {a.m_title, a.m_header, a.m_footer} : IsEmptyText(label.text)

IsDefaultCosmetic(a) == CosmeticSettings(a) = << "AlignWithAxisLine", wxDefaultSize >>

\* what Reset(level) may do to the axis `before`, giving the axis `after`
ResetFrame(before, after, level) ==
    LET SameBrackets == after.m_brackets = before.m_brackets
        SameTitles == TitleHeaderFooter(after) = TitleHeaderFooter(before)
        SameCosmetic == CosmeticSettings(after) = CosmeticSettings(before)
        SamePoints == PointsAndRange(after) = PointsAndRange(before)
    IN CASE level = "CosmeticSettings" ->
              SamePoints /\ SameBrackets /\ SameTitles
         [] level = "Brackets" ->
              after = [before EXCEPT !.m_brackets = << >>]
         [] level = "TitleHeaderFooter" ->
              /\ IsBlank(after)
              /\ [after EXCEPT !.m_title = before.m_title,
                               !.m_header = before.m_header,
                               !.m_footer = before.m_footer] = before
         [] level = "RangeAndLabelValues" ->
              IsCleared(after) /\ SameBrackets /\ SameTitles /\ SameCosmetic
         [] level = "AllSettings" ->
              /\ IsDefaultCosmetic(after)
              /\ after.m_brackets = << >>
              /\ IsBlank(after)
              /\ IsCleared(after)

---------------------------------------------------------------------------
(* The room an axis asks for and is granted (specification SpecBox) *)

\* the widths and heights of the rectangles an axis is granted
GrantedSizes == {<< 40, 20 >>}

NextBox ==
    \/ DoSetRange({<< 0, 2 * Unit >>}, {0}, {Unit}, {1})
    \/ DoSetLabelDisplay({"DisplayCustomLabelsOrValues", "DisplayOnlyCustomLabels"})
    \/ DoSetAxisLabelOrientation
    \/ DoSetText({"m_title"}, {"Sales"})
    \/ DoSetOutlineSize({[width |-> 2, height |-> 2]})
    \/ DoSetFreeFloating
    \/ DoSetBoundingBox(GrantedSizes, {LargeFont}, {2 * Unit})
    \/ DoGetBoundingBox({LargeFont})

SpecBox == InitFit /\ [][NextBox]_vars

C17_BoxWithinGranted ==
    (lastCall.op = "GetBoundingBox" /\ Len(lastCall.granted) = 1) =>
        IF IsHorizontal(axis)
        THEN lastCall.boxes[1].height <= lastCall.granted[1].height
        ELSE lastCall.boxes[1].width <= lastCall.granted[1].width

---------------------------------------------------------------------------
(* Degenerate geometry: no axis points, no displayed labels, an axis line  *)
(* of no length, a single axis point (specification SpecDegenerate)        *)

NextDegenerate ==
    \/ DoSetRange({<< 0, 2 * Unit >>}, {0}, {Unit}, {1})
    \/ DoAddUnevenAxisPoint({Unit}, {"Q1"})
    \/ DoSetPoints(LineCoords, {LargeFont})
    \/ DoSetScaling(ParentScalings)
    \/ DoSetAxisLabelScaling(LabelScalings)
    \/ DoSetAxisLabelOrientation
    \/ DoEnableAutoStacking
    \/ DoSetLabelDisplay({"DisplayCustomLabelsOrValues", "DisplayOnlyCustomLabels"})
    \/ DoCalcBestScalingToFitLabels({LargeFont})

SpecDegenerate == InitFit /\ [][NextDegenerate]_vars

\* whether no label fits the axis: no point displays one, or the axis line
\* has no length
HasNoLabelBudget == DisplayedPoints = {} \/ PlotSize(axis) = 0

---------------------------------------------------------------------------
(* Termination of the mutators (specification Spec)                        *)

\* C22: every axis mutator terminates for every argument value: no call of
\* SetDisplayInterval (interval 0 included), of SetRange (intervals of 0 and
\* below included) or of the tick-mark generation enters a loop that never
\* ends.
C22_EveryMutatorTerminates == ~hung

---------------------------------------------------------------------------
(* Pixels before SetPoints (specification SpecMap)                         *)

\* whether GetPhysicalCoordinate gives the unset coordinate for the value of
\* every axis point
IsUnplaced(a) ==
    \A i \in 1..Len(a.m_axisLabels) :
        GetPhysicalCoordinate(a, a.m_axisLabels[i].value).result = UnsetCoordinate

\* C23: once SetRange has built the axis points, GetPhysicalCoordinate gives
\* the unset coordinate -1 for the value of every axis point until SetPoints
\* is called: SetRange leaves no pixel of an earlier range or of earlier
\* endpoints, and no call other than SetPoints brings one in.
C23_UnsetUntilSetPoints ==
    [][(/\ lastCall'.op # "SetPoints"
        /\ lastCall'.op = "SetRange" \/ IsUnplaced(axis)) => IsUnplaced(axis')]_vars

\* SetRange has rebuilt the points of an axis that SetPoints had laid out
\* between the pixels 0 and MaxPixel
C23_Witness ==
    /\ lastCall.op = "SetRange"
    /\ AxisLength = MaxPixel
    /\ Len(axis.m_tickMarks) = 3
    /\ Len(axis.m_axisLabels) = 3
    /\ IsUnplaced(axis)

---------------------------------------------------------------------------
(* The length of a bar (specification SpecBar)                              *)

\* block lengths of 0, 0.5, 1.0 and 2.5
BlockLengths == {0, 5, 10, 25}

InitBar ==
    /\ axis = NewAxis("BottomXAxis")
    /\ bar \in {NewBar} \cup
               {Bar(Unit, blocks, customWidth) :
                   blocks \in {<< >>} \cup {<< BarBlock(len) >> : len \in BlockLengths},
                   customWidth \in {<< >>, << 0 >>, << Unit >>}}
    /\ table = NewTable
    /\ hung = FALSE
    /\ positioned = FALSE
    /\ lastCall = OtherCall

NextBar ==
    \/ DoAddBlock(BlockLengths)
    \/ DoClearBlocks

SpecBar == InitBar /\ [][NextBar]_vars

\* C24: Bar::GetLength() equals the sum of the lengths of the blocks the bar
\* holds, after any sequence of construction, AddBlock and ClearBlocks (so
\* it is 0 after ClearBlocks).
C24_LengthIsSumOfBlocks ==
    GetLength(bar) = AccumulateLength(bar.m_blocks)

---------------------------------------------------------------------------
(* The rows and columns of a table (specification SpecTable)                *)

ColumnNames == {<< >>, << "Total" >>}

InitTable ==
    /\ axis = NewAxis("BottomXAxis")
    /\ bar = NewBar
    /\ table = NewTable
    /\ hung = FALSE
    /\ positioned = FALSE
    /\ lastCall = OtherCall

NextTable ==
    \/ DoSetTableSize(0..2)
    \/ DoClearTable
    \/ DoInsertRow(0..MaxRows, ColumnNames)
    \/ DoInsertColumn(0..MaxColumns, ColumnNames)

SpecTable == InitTable /\ [][NextTable]_vars

\* C25: InsertColumn(colIndex, colName) on a table with at least one column
\* puts one empty cell into every row at position min(colIndex, column
\* count) and, when colName is given, writes it into the cell of the first
\* row in the new column, for every colIndex, also one beyond the column
\* count; on a table whose size has not been established the call changes
\* nothing.
C25_InsertColumnAtClampedIndex ==
    [][table'.op = "InsertColumn" =>
          IF GetColumnCount(table) = 0 THEN table'.m_table = table.m_table
          ELSE LET at == Min(table'.index, GetColumnCount(table)) + 1
               IN /\ GetRowCount(table') = GetRowCount(table)
                  /\ \A r \in 1..GetRowCount(table) :
                        table'.m_table[r] =
                            InsertAt(table.m_table[r], at,
                                     IF r = 1 /\ Len(table'.name) > 0
                                     THEN table'.name[1] ELSE TableCell)]_vars

\* C30: the table stays rectangular after any sequence of SetTableSize,
\* InsertRow, InsertColumn and ClearTable: every row has as many cells as
\* GetColumnCount() says.
C30_TableIsRectangular ==
    \A r \in 1..GetRowCount(table) : Len(table.m_table[r]) = GetColumnCount(table)

\* InsertColumn has added a third, named column to a table of three rows,
\* one of which InsertRow had added with a name
C30_Witness ==
    /\ table.op = "InsertColumn"
    /\ table.fault = "none"
    /\ GetRowCount(table) = MaxRows
    /\ GetColumnCount(table) = MaxColumns
    /\ table.m_table[1][MaxColumns] = "Total"
    /\ table.m_table[MaxRows][1] = "Total"

---------------------------------------------------------------------------
(* Fitting the labels to the axis line under a magnified parent             *)
(* (specification SpecShrink)                                               *)

\* parent scalings of 1.0 and 2.0
MagnifiedScalings == {Unit, 2 * Unit}

\* axis lines of no length, of 100 and of 200 pixels
GrowingLineCoords == {0, 100, 200}

NextShrink ==
    \/ DoSetRange({<< 0, 9 * Unit >>}, {0}, {Unit}, {1})
    \/ DoSetPoints(GrowingLineCoords, Fonts)
    \/ DoSetScaling(MagnifiedScalings)
    \/ DoSetAxisLabelScaling(LabelScalings)
    \/ DoSetAxisLabelOrientation
    \/ DoCalcBestScalingToFitLabels(Fonts)

SpecShrink == InitFit /\ [][NextShrink]_vars

\* C26: CalcBestScalingToFitLabels never raises the axis label scaling above
\* the value it had at entry when that value is at least 1.0, so that the
\* label scaling does not increase over SetPoints calls either, also when a
\* SetPoints makes the axis line longer.
C26_LabelScalingNeverRaised ==
    [][(/\ lastCall'.op \in {"CalcBestScalingToFitLabels", "SetPoints"}
        /\ axis.m_axisLabelScaling >= Unit)
          => axis'.m_axisLabelScaling <= axis.m_axisLabelScaling]_vars

---------------------------------------------------------------------------
(* Placing an axis in the same rectangle again (specification SpecAnchor)   *)

\* the rectangles an axis is granted one after the other
RegrantedSizes == {<< 40, 20 >>, << 30, 30 >>}

InitAnchor == Init

NextAnchor ==
    \/ DoSetRange({<< 0, 2 * Unit >>}, {0}, {Unit}, {1})
    \/ DoSetAnchoring(Anchorings)
    \/ DoSetBoundingBox(RegrantedSizes, {SmallFont}, {Unit})

SpecAnchor == InitAnchor /\ [][NextAnchor]_vars

\* C27: SetBoundingBox is idempotent on an axis that is not changed in
\* between: a second SetBoundingBox with the rectangle, the measuring
\* context and the scaling of the one before it leaves the endpoints, the
\* physical coordinates of the axis points and the label scaling as the
\* first call left them, for every axis type and anchoring and whatever
\* rectangle an earlier SetBoundingBox was given.
C27_SetBoundingBoxIdempotent ==
    [][(/\ lastCall.op = "SetBoundingBox"
        /\ lastCall'.op = "SetBoundingBox"
        /\ lastCall'.granted = lastCall.granted
        /\ lastCall'.dc = lastCall.dc
        /\ axis'.m_scaling = axis.m_scaling)
          => /\ axis'.m_points = axis.m_points
             /\ axis'.m_axisLabels = axis.m_axisLabels
             /\ axis'.m_axisLabelScaling = axis.m_axisLabelScaling]_vars

---------------------------------------------------------------------------
(* Custom labels and the display interval (specification SpecStride)        *)

\* the values custom labels are attached to: axis points and, with 1.5, a
\* value between two axis points
CustomLabelValues == {0, Unit, Unit + 5}

NextStride ==
    \/ DoSetRange({<< 0, 3 * Unit >>}, {0}, {Unit}, {1, MaxDisplayInterval})
    \/ DoSetDisplayInterval({1, MaxDisplayInterval}, {0, 1})
    \/ DoSetCustomLabel(CustomLabelValues, {"Q1"})
    \/ DoSetLabelDisplay(AxisLabelDisplays)
    \/ DoReverseScale

SpecStride == InitFit /\ [][NextStride]_vars

\* the custom labels attached to a value that is not the value of an axis
\* point
StrayCustomLabels ==
    {c \in axis.m_customAxisLabels :
        \A i \in 1..Len(axis.m_axisLabels) : axis.m_axisLabels[i].value # c.value}

\* the axis points that the display interval hid
HiddenPoints == {i \in 1..Len(axis.m_axisLabels) : ~axis.m_axisLabels[i].shown}

\* C28: an axis point that the display interval (of SetRange or of
\* SetDisplayInterval) hid displays no label in any label display mode, also
\* when a custom label is attached at its value, and a custom label at a
\* value that is not an axis point is not displayed: no point displays it.
C28_HiddenPointsDisplayNoLabel ==
    /\ \A i \in HiddenPoints : ~IsPointDisplayingLabel(axis, axis.m_axisLabels[i])
    /\ lastCall.op = "SetRange" =>
          \A i \in 1..Len(axis.m_axisLabels) :
              (i - 1) % lastCall.displayInterval # 0 =>
                  ~IsPointDisplayingLabel(axis, axis.m_axisLabels[i])
    /\ \A c \in StrayCustomLabels :
          LET without == [axis EXCEPT !.m_customAxisLabels = @ \ {c}]
          IN \A i \in 1..Len(axis.m_axisLabels) :
                LET point == axis.m_axisLabels[i]
                IN /\ IsPointDisplayingLabel(without, point)
                        = IsPointDisplayingLabel(axis, point)
                   /\ GetDisplayableValue(without, point)
                        = GetDisplayableValue(axis, point)

\* SetRange hid every second point, one of which has a custom label, while
\* other points display theirs and a custom label sits between two points
C28_Witness ==
    /\ lastCall.op = "SetRange"
    /\ lastCall.displayInterval = MaxDisplayInterval
    /\ axis.m_labelDisplay = "DisplayCustomLabelsAndValues"
    /\ \E i \in HiddenPoints : GetCustomLabel(axis, axis.m_axisLabels[i].value).ok
    /\ StrayCustomLabels # {}
    /\ DisplayedPoints # {}

---------------------------------------------------------------------------
(* The tick marks SetPoints generates (checked under SpecMap)               *)

\* the values start, start + tickInterval, ... within the range of the axis,
\* whichever of the stored range ends is the lower one
ExpectedTickValues ==
    LET lower == Min(axis.m_rangeStart, axis.m_rangeEnd)
        upper == Max(axis.m_rangeStart, axis.m_rangeEnd)
    IN {lower + k * axis.m_tickMarkInterval :
            k \in 0..((upper - lower) \div axis.m_tickMarkInterval)}

\* C29: after SetPoints the regular tick marks are exactly one tick for every
\* value start, start + tickInterval, ... within the axis range, each at the
\* physical coordinate GetPhysicalCoordinate gives for its value, on
\* reversed axes as on others; no tick of an earlier range is left.
C29_OneTickPerInterval ==
    lastCall.op = "SetPoints" =>
        /\ {axis.m_tickMarks[k].m_position : k \in 1..Len(axis.m_tickMarks)}
              = ExpectedTickValues
        /\ Len(axis.m_tickMarks) = Cardinality(ExpectedTickValues)
        /\ \A k \in 1..Len(axis.m_tickMarks) :
              axis.m_tickMarks[k].m_physicalCoordinate
                  = GetPhysicalCoordinate(axis, axis.m_tickMarks[k].m_position).result

====
